---- MODULE Spec2Model ----
(***************************************************************************)
(* A model of the geodiff-app crawlers.                                    *)
(*                                                                         *)
(*   - apk-downloader/crawler.py: the download orchestrator (crawl and     *)
(*     execute), its queue DOWNLOAD_QUEUE, its three output files and the  *)
(*     interrupt signal.                                                   *)
(*   - gpcrawler/metadata_crawl.py: the metadata orchestrator: read_apps,  *)
(*     main, its worker threads (get_metadata) and its writer threads      *)
(*     (logging), and the interrupt signal.                                *)
(*   - gpcrawler/mpyscraper/utils.py: the rate-limited fetcher _request,   *)
(*     called by the worker threads, and the call it keeps in flight.      *)
(*   - gpcrawler/mpyscraper/element.py: nested_lookup and                  *)
(*     ElementSpec.extract_content, applied to decoded JSON.               *)
(*   - gpcrawler/mpyscraper/api.py and utils.py: one call of details or    *)
(*     search (_build_url, _request, _parse_response, _cluster_request and *)
(*     _get_ui_request).                                                   *)
(*                                                                         *)
(* A behaviour is a sequence of runs of one of these programs; the         *)
(* variable prog says which.  The variables of the other programs keep     *)
(* their idle values.                                                      *)
(*                                                                         *)
(* A decoded JSON value is a node [kind, items, val]; Python indexes stay  *)
(* 0-based.  The result of a call that can raise is [exc, value].          *)
(*                                                                         *)
(* Text is modelled as follows.  An exception message is the sequence of   *)
(* its pieces between the ": " separators, so that str(e).split(": ")[1]   *)
(* is the second piece and fails when there is only one.  "text in str(e)" *)
(* is modelled as "text is one of the pieces".  A line of a file is a      *)
(* string; strip() is the table Strip.                                     *)
(*                                                                         *)
(* Environment: the local file system works (open, write and rmtree do     *)
(* not raise OSError), and the identifiers given on the command line are   *)
(* application ids (not blank, no surrounding white space, no leading #).  *)
(***************************************************************************)
EXTENDS Integers, Sequences, FiniteSets, TLC

(***************************************************************************)
(* Bounds of the model.                                                    *)
(***************************************************************************)
MaxInput == 3
MaxRuns == 2
NumWorkers == 2
TicksPerSecond == 2
MaxClock == 3
MaxNodes == 4
MaxPages == 2

(***************************************************************************)
(* Generic helpers.                                                        *)
(***************************************************************************)
Range(s) == {s[i] : i \in DOMAIN s}

SeqsUpTo(S, n) == UNION {[1..k -> S] : k \in 0..n}

Min(S) == CHOOSE x \in S : \A y \in S : x <= y

RECURSIVE Filter(_, _)
Filter(s, keep) ==
  IF s = <<>> THEN <<>>
  ELSE IF Head(s) \in keep THEN <<Head(s)>> \o Filter(Tail(s), keep)
       ELSE Filter(Tail(s), keep)

RECURSIVE Count(_, _)
Count(s, x) ==
  IF s = <<>> THEN 0
  ELSE (IF Head(s) = x THEN 1 ELSE 0) + Count(Tail(s), x)

(***************************************************************************)
(* Lines of text: identifiers, comment lines, blank lines.                 *)
(***************************************************************************)
Apps == {"a", "b"}

RawLines == {"a", "b", " a ", "# note", "  # note", "", "  "}

\* str.strip()
Strip(line) ==
  CASE line = " a " -> "a"
    [] line = "  # note" -> "# note"
    [] line = "  " -> ""
    [] OTHER -> line

\* line[0] == "#" / line.startswith("#"), on a stripped line
StartsWithHash(line) == line = "# note"

(***************************************************************************)
(* Download failures.  ERRORS of crawler.py, in the order of the dict.     *)
(***************************************************************************)
ERROR_KEYS ==
  << "Item not found",
     "Your device is not compatible with this item",
     "The Play Store application on your device is outdated",
     "Google Play purchases are not supported in your country",
     "This item is not available on your service provider",
     "Rate limit triggered" >>

ERRORS ==
  ("Item not found" :> 1) @@
  ("Your device is not compatible with this item" :> 2) @@
  ("The Play Store application on your device is outdated" :> 4) @@
  ("Google Play purchases are not supported in your country" :> 5) @@
  ("This item is not available on your service provider" :> 8) @@
  ("Rate limit triggered" :> 14)

\* The messages str(e) the download collaborator raises in this model.
NotFoundMsg == <<"Error when downloading", "Item not found">>
IncompatibleMsg ==
  <<"Error when downloading", "Your device is not compatible with this item">>
BareNotFoundMsg == <<"Item not found">>
RateLimitMsg == <<"Error when downloading", "Rate limit triggered">>
UnknownMsg == <<"object has no attribute docV2">>
CredentialsMsg == <<"Error", "credentials">>

Messages ==
  { NotFoundMsg, IncompatibleMsg, BareNotFoundMsg,
    RateLimitMsg, UnknownMsg, CredentialsMsg }

\* text in str(e)
Contains(msg, text) == \E i \in DOMAIN msg : msg[i] = text

\* Faulty variant: the check of line 175 is missing.
IsConfigError_Missing(msg) == FALSE

\* crawler.py:175
IsConfigError(msg) ==
  Contains(msg, "configuration file") \/ Contains(msg, "credentials")

\* Faulty variant: an unrecognised message gets the code of the first key.
ErrorCode_DefaultFirst(msg) ==
  LET hits == {i \in DOMAIN ERROR_KEYS : Contains(msg, ERROR_KEYS[i])}
  IN  IF hits = {} THEN 1 ELSE ERRORS[ERROR_KEYS[Min(hits)]]

\* crawler.py:180-184: the first key of ERRORS found in the message, else 15
ErrorCode(msg) ==
  LET hits == {i \in DOMAIN ERROR_KEYS : Contains(msg, ERROR_KEYS[i])}
  IN  IF hits = {} THEN 15 ELSE ERRORS[ERROR_KEYS[Min(hits)]]

\* Faulty variant: only the rate limit counts as transient.
IsTransient_RateLimitOnly(code) == code = 14

\* crawler.py:189 (and 204, 210): codes from 10 on are transient
IsTransient(code) == code >= 10

\* str(e).split(": ")[1] is defined when the message has a second piece
CanSplit(msg) == Len(msg) >= 2
SplitSecond(msg) == msg[2]

\* The outcome of one call of download(): success, or a DownloadException.
Success == [ok |-> TRUE, msg |-> <<>>]
Failure(msg) == [ok |-> FALSE, msg |-> msg]
Outcomes == {Success} \cup {Failure(m) : m \in Messages}

\* previous = None
None == <<>>


(***************************************************************************)
(* State.                                                                  *)
(***************************************************************************)
VARIABLES
  prog,            \* which program this behaviour runs
  outcomes,        \* environment: the outcomes download() has in this behaviour
  pc,              \* crawler: "start", "run", "done", "crashed", "interrupted";
                   \*   else "idle"
  runs,            \* crawler: number of the current run (same output directory)
  input_apps,      \* crawler: args.input_apps, or the lines of the input file
  input_is_file,   \* crawler: len(apps) == 1 and os.path.isfile(apps[0])
  args_random,     \* crawler: args.random
  finished_file,   \* crawler: lines of finished.txt
  failure_file,    \* crawler: lines of failure.txt, [app, text]
  transient_file,  \* crawler: lines of transient.txt, [app, text]
  DOWNLOAD_QUEUE,  \* crawler: entries [app, is_retry, previous]
  count,           \* crawler: iterations of the crawl loop in this run
  finished_count,  \* crawler: finished apps in this run
  queued,          \* history: the apps put on the queue at start-up of this run
  tries,           \* history: per app, the outcomes of its attempts in this run
  codes,           \* history: per app, the error_code execute gave each attempt
  dispatched,      \* history: the apps of the entries taken from the queue in
                   \*   this run, in the order of DOWNLOAD_QUEUE.get()
  meta_pc,         \* metadata_crawl, main: "start", "input missing", "queued" (in the
                   \*   join of the app queue), "join log", "join metadata",
                   \*   "finished", "interrupted"; else "idle"
  meta_file,       \* metadata_crawl: the lines of the file args.input_apps
  meta_exists,     \* metadata_crawl: os.path.exists(args.input_apps)
  meta_random,     \* metadata_crawl: args.random
  app_queue,       \* metadata_crawl: queues["app"]
  unfinished_tasks,\* metadata_crawl: unfinished_tasks of queues["app"]
  worker,          \* metadata_crawl: per worker thread, where it is and its app
  out_queue,       \* metadata_crawl: queues["log"] and queues["metadata"]
  out_file,        \* metadata_crawl: the lines written to log.txt and metadata.csv
  writer,          \* metadata_crawl: per writer thread, where it is
  put_back,        \* history: per app, a retry of the app has put it back on
                   \*   the app queue
  clock,           \* scraper: the time, in ticks
  last_reset,      \* scraper: the limiter's last_reset
  num_calls,       \* scraper: the limiter's num_calls
  wstate,          \* scraper: per worker, "ready", "sleeping" in sleep_and_retry,
                   \*          or "in flight" in urlopen
  wake,            \* scraper: per worker, the end of its sleep
  site,            \* scraper: per worker, the call site of its call in flight
  admitted,        \* history: per tick, the calls of _request let through
  opened,          \* history: per tick, the calls of urlopen or opener.open
  tree_pc,         \* extraction: "given", "extracted"; else "idle"
  source,          \* extraction: the dataset map, "ds:N" -> nested list
  element,         \* extraction: the ElementSpec applied
  content,         \* extraction: what extract_content(source) returned or raised
  graft,           \* extraction: where and by what a second map differs from source
  content_other,   \* extraction: what extract_content returned on the second map
  api_pc,          \* api: "call", "built", "seed", "loop", "retry", "returned", "raised"
  call,            \* api: the function called and the arguments of _build_url
  url,             \* api: the URL _build_url returned
  api_exc,         \* api: the exception the call raised, and the function it left
  fetch,           \* history: what the last _request met and returned; their number
  res,             \* api: the dataset map _parse_response returned
  record,          \* api: the result of details
  results,         \* api: results of _cluster_request
  token,           \* api: token of _cluster_request
  retry,           \* api: retry of _get_ui_request
  loaded,          \* history: per page whose apps were read, the ids on that page
  tokens,          \* history: the tokens the pages read so far carried
  requests,        \* history: the calls of _request made for batch responses
  attempts,        \* history: those made for the current token
  failed,          \* history: the step of the loop that failed, if one did
  gave_up,         \* history: _get_ui_request returned the text with the marker
  marked           \* history: some batch response held the marker

crawlVars ==
  << pc, runs, input_apps, input_is_file, args_random, finished_file,
     failure_file, transient_file, DOWNLOAD_QUEUE, count, finished_count,
     queued, tries, codes, dispatched >>

metaVars ==
  << meta_pc, meta_file, meta_exists, meta_random, app_queue, unfinished_tasks,
     worker, out_queue, out_file, writer, put_back >>

limVars ==
  << clock, last_reset, num_calls, wstate, wake, site, admitted, opened >>

treeVars == << tree_pc, source, element, content, graft, content_other >>

pageVars == << loaded, tokens, requests, attempts, failed, gave_up, marked >>

scrapeVars ==
  << api_pc, call, url, api_exc, fetch, res, record, results, token, retry,
     pageVars >>

apiVars == << treeVars, scrapeVars >>

vars == << prog, outcomes, crawlVars, metaVars, limVars, apiVars >>

NoTries == [a \in Apps |-> <<>>]

(***************************************************************************)
(* crawler.py: start-up.                                                   *)
(***************************************************************************)
\* The filter of read_input_apps and remove_finished_apps:
\* lambda line: line and line[0] != "#"
IsEntryLine(line) == line # "" /\ ~StartsWithHash(line)

RECURSIVE StripAll(_)
StripAll(lines) ==
  IF lines = <<>> THEN <<>>
  ELSE <<Strip(Head(lines))>> \o StripAll(Tail(lines))

RECURSIVE FilterEntries(_)
FilterEntries(lines) ==
  IF lines = <<>> THEN <<>>
  ELSE IF IsEntryLine(Head(lines))
       THEN <<Head(lines)>> \o FilterEntries(Tail(lines))
       ELSE FilterEntries(Tail(lines))

read_input_apps(apps, is_file) ==
  IF is_file THEN FilterEntries(StripAll(apps)) ELSE apps

\* the set `finished` of remove_finished_apps
FinishedSet(lines) == Range(FilterEntries(StripAll(lines)))

\* Faulty variant: the finished apps are not removed.
remove_finished_apps_Keeps(apps, lines) == apps

remove_finished_apps(apps, lines) ==
  Filter(apps, Range(apps) \ FinishedSet(lines))

\* Faulty variant: duplicates are not skipped.
Unique_KeepsAll(apps, seen) == apps

\* crawl, lines 327-333: the first occurrence of each app, in order
RECURSIVE Unique(_, _)
Unique(apps, seen) ==
  IF apps = <<>> THEN <<>>
  ELSE IF Head(apps) \in seen THEN Unique(Tail(apps), seen)
       ELSE <<Head(apps)>> \o Unique(Tail(apps), seen \cup {Head(apps)})

FirstEntry(app) == [app |-> app, is_retry |-> FALSE, previous |-> None]

RECURSIVE FirstEntries(_)
FirstEntries(apps) ==
  IF apps = <<>> THEN <<>>
  ELSE <<FirstEntry(Head(apps))>> \o FirstEntries(Tail(apps))

\* random.shuffle: any order of the same elements
Shuffles(apps) ==
  { [i \in DOMAIN apps |-> apps[p[i]]] :
      p \in {q \in [DOMAIN apps -> DOMAIN apps] :
               \A i, j \in DOMAIN apps : q[i] = q[j] => i = j} }

StartCrawl ==
  /\ prog = "crawler"
  /\ pc = "start"
  /\ LET apps0 == read_input_apps(input_apps, input_is_file)
         apps1 == remove_finished_apps(apps0, finished_file)
     IN  IF apps0 = <<>> \/ apps1 = <<>>
         THEN /\ pc' = "done"
              /\ UNCHANGED << DOWNLOAD_QUEUE, queued >>
         ELSE \E apps2 \in (IF args_random THEN Shuffles(apps1) ELSE {apps1}) :
                /\ DOWNLOAD_QUEUE' = FirstEntries(Unique(apps2, {}))
                /\ queued' = Unique(apps2, {})
                /\ pc' = "run"
  /\ count' = 0
  /\ finished_count' = 0
  /\ UNCHANGED << prog, outcomes, runs, input_apps, input_is_file, args_random,
                  finished_file, failure_file, transient_file, tries, codes,
                  dispatched, metaVars, limVars, apiVars >>


(***************************************************************************)
(* crawler.py: execute and one iteration of the crawl loop.                *)
(***************************************************************************)
\* Faulty variant: the app is put back for a retry without its first error.
RetryEntry_NoPrevious(app, code, msg) ==
  [app |-> app, is_retry |-> TRUE, previous |-> <<>>]

\* Faulty variant: the app is put back as if it had not been tried.
RetryEntry_NotFlagged(app, code, msg) ==
  [app |-> app, is_retry |-> FALSE, previous |-> <<>>]

RetryEntry(app, code, msg) ==
  [app |-> app, is_retry |-> TRUE, previous |-> <<code, msg>>]

Line(app, text) == [app |-> app, text |-> text]

\* Faulty variant: every classified failure is logged as transient.
TransientLines_All(app, msg) == <<Line(app, msg)>>

\* execute, lines 189-193: the lines appended to the transient file
TransientLines(app, msg) ==
  IF IsTransient(ErrorCode(msg)) THEN <<Line(app, msg)>> ELSE <<>>

\* Faulty variant: the class of the first error is not looked at.
LatestValidError_FirstAlways(code, msg, previous) ==
  IF code < 10 THEN <<msg>> ELSE <<previous[2]>>

\* execute, lines 199-217: the message whose error is recorded on a retry;
\* <<m>> for a recorded message m, <<>> when both errors are transient
LatestValidError(code, msg, previous) ==
  IF code < 10 THEN <<msg>>
  ELSE IF previous[1] < 10 THEN <<previous[2]>>
  ELSE <<>>

\* What execute does after a failed download: the value it returns ("None"
\* when it falls off its end), whether IndexError leaves it, the lines it
\* appends to the transient and failure files, the entries it puts on the
\* queue, and the error_code it assigned (<<>> when it assigned none).
Nothing ==
  [ret |-> "False", raised |-> FALSE, transient |-> <<>>,
   failure |-> <<>>, put |-> <<>>, code |-> <<>>]

\* execute, lines 199-217: the second failure of an app
RetryFailure(app, previous, msg) ==
  LET valid == LatestValidError(ErrorCode(msg), msg, previous)
  IN  IF valid = <<>>
      THEN [Nothing EXCEPT
              !.transient = TransientLines(app, msg),
              !.code = <<ErrorCode(msg)>>]
      ELSE IF CanSplit(valid[1])
      THEN [Nothing EXCEPT
              !.ret = "True",
              !.transient = TransientLines(app, msg),
              !.failure = <<Line(app, SplitSecond(valid[1]))>>,
              !.code = <<ErrorCode(msg)>>]
      ELSE [Nothing EXCEPT
              !.ret = "None",
              !.raised = TRUE,
              !.transient = TransientLines(app, msg),
              !.code = <<ErrorCode(msg)>>]

\* Faulty variant: a permanent error is written to the failure file on the first attempt.
FirstFailure_Records(app, msg) ==
  [ret |-> "None", raised |-> FALSE,
   transient |-> <<>>,
   failure |-> IF Len(msg) >= 2 THEN <<[app |-> app, text |-> msg[2]]>> ELSE <<>>,
   put |-> <<[app |-> app, is_retry |-> TRUE, previous |-> <<1, msg>>]>>,
   code |-> <<1>>]

\* execute, lines 218-220: the first failure of an app
FirstFailure(app, msg) ==
  [Nothing EXCEPT
     !.ret = "None",
     !.transient = TransientLines(app, msg),
     !.put = <<RetryEntry(app, ErrorCode(msg), msg)>>,
     !.code = <<ErrorCode(msg)>>]

\* Faulty variant: a first failure is handled like the failure of a retry.
ExecuteFailure_NoRetry(app, is_retry, previous, msg) ==
  IF IsConfigError(msg) THEN Nothing
  ELSE RetryFailure(app, IF is_retry THEN previous ELSE <<ErrorCode(msg), msg>>,
                    msg)

\* execute, lines 168-220, for a DownloadException with message msg
ExecuteFailure(app, is_retry, previous, msg) ==
  IF IsConfigError(msg) THEN Nothing
  ELSE IF is_retry THEN RetryFailure(app, previous, msg)
  ELSE FirstFailure(app, msg)

\* Faulty variant: the finished app is not written to finished.txt.
FinishedLines_Never(app, executed) == <<>>

\* crawl, lines 360-364: the line appended to finished.txt
FinishedLines(app, executed) == IF executed THEN <<app>> ELSE <<>>

\* Faulty variant: the file is opened with mode "w".
AppendTo_Rewrites(lines, new) == new

\* open(file, "a") and write: the new lines go after those of the file
AppendTo(lines, new) == lines \o new

\* Faulty variant: the items are put at the front of the queue.
Put_AtFront(queue, items) == items \o queue

\* Queue.put (queue.Queue is first in, first out): the items go to the back
Put(queue, items) == queue \o items

\* crawl, lines 344-368: one iteration of the loop, with the outcome of download
CrawlStep ==
  /\ prog = "crawler"
  /\ pc = "run"
  /\ DOWNLOAD_QUEUE # <<>>
  /\ \E outcome \in outcomes :
       LET entry == Head(DOWNLOAD_QUEUE)
           app == entry.app
           r == IF outcome.ok
                THEN [Nothing EXCEPT !.ret = "True"]
                ELSE ExecuteFailure(app, entry.is_retry, entry.previous,
                                    outcome.msg)
           executed == r.ret = "True"
       IN  /\ tries' = [tries EXCEPT ![app] = Append(@, outcome)]
           /\ codes' = [codes EXCEPT ![app] = Append(@, r.code)]
           /\ dispatched' = Append(dispatched, app)
           /\ transient_file' = AppendTo(transient_file, r.transient)
           /\ failure_file' = AppendTo(failure_file, r.failure)
           /\ DOWNLOAD_QUEUE' = Put(Tail(DOWNLOAD_QUEUE), r.put)
           /\ IF r.raised
              THEN /\ pc' = "crashed"
                   /\ UNCHANGED << finished_file, finished_count, count >>
              ELSE /\ pc' = pc
                   /\ finished_file' =
                        AppendTo(finished_file, FinishedLines(app, executed))
                   /\ finished_count' = finished_count + (IF executed THEN 1 ELSE 0)
                   /\ count' = count + 1
  /\ UNCHANGED << prog, outcomes, runs, input_apps, input_is_file, args_random,
                  queued, metaVars, limVars, apiVars >>

\* KeyboardInterrupt in the loop of crawl (lines 341-371): it is caught at
\* line 369, the end of the crawl is logged and the process ends with the
\* entries that are still on its queue.  The signal arrives between two
\* iterations or during the download, which then has written nothing; or
\* after execute has returned and before line 363, when the lines of execute
\* are in their files and the app is not yet in finished.txt.
CrawlInterrupt ==
  /\ prog = "crawler"
  /\ pc = "run"
  /\ pc' = "interrupted"
  /\ \/ UNCHANGED << transient_file, failure_file, DOWNLOAD_QUEUE, tries, codes,
                     dispatched >>
     \/ /\ DOWNLOAD_QUEUE # <<>>
        /\ \E outcome \in outcomes :
             LET entry == Head(DOWNLOAD_QUEUE)
                 app == entry.app
                 r == IF outcome.ok
                      THEN [Nothing EXCEPT !.ret = "True"]
                      ELSE ExecuteFailure(app, entry.is_retry, entry.previous,
                                          outcome.msg)
             IN  /\ ~r.raised
                 /\ tries' = [tries EXCEPT ![app] = Append(@, outcome)]
                 /\ codes' = [codes EXCEPT ![app] = Append(@, r.code)]
                 /\ dispatched' = Append(dispatched, app)
                 /\ transient_file' = AppendTo(transient_file, r.transient)
                 /\ failure_file' = AppendTo(failure_file, r.failure)
                 /\ DOWNLOAD_QUEUE' = Put(Tail(DOWNLOAD_QUEUE), r.put)
  /\ UNCHANGED << prog, outcomes, runs, input_apps, input_is_file, args_random,
                  finished_file, count, finished_count, queued,
                  metaVars, limVars, apiVars >>

\* crawl, lines 344 and 373-378: the queue is empty, the loop ends
EndCrawl ==
  /\ prog = "crawler"
  /\ pc = "run"
  /\ DOWNLOAD_QUEUE = <<>>
  /\ pc' = "done"
  /\ UNCHANGED << prog, outcomes, runs, input_apps, input_is_file, args_random,
                  finished_file, failure_file, transient_file,
                  DOWNLOAD_QUEUE, count, finished_count, queued, tries, codes,
                  dispatched, metaVars, limVars, apiVars >>

\* The operator runs the same command again on the same day: a new process
\* (an empty DOWNLOAD_QUEUE) over the files of the same output directory.
Restart ==
  /\ prog = "crawler"
  /\ pc \in {"done", "crashed", "interrupted"}
  /\ runs < MaxRuns
  /\ runs' = runs + 1
  /\ pc' = "start"
  /\ DOWNLOAD_QUEUE' = <<>>
  /\ count' = 0
  /\ finished_count' = 0
  /\ queued' = <<>>
  /\ tries' = NoTries
  /\ codes' = NoTries
  /\ dispatched' = <<>>
  /\ UNCHANGED << prog, outcomes, input_apps, input_is_file, args_random,
                  finished_file, failure_file, transient_file, metaVars, limVars, apiVars >>

(***************************************************************************)
(* metadata_crawl.py: read_apps and the start of main.                     *)
(***************************************************************************)
\* read_apps, lines 201-211: strip each line, skip comments and duplicates
RECURSIVE ReadLines(_, _)
ReadLines(lines, unique) ==
  IF lines = <<>> THEN <<>>
  ELSE LET app == Strip(Head(lines))
       IN  IF StartsWithHash(app) \/ app \in unique
           THEN ReadLines(Tail(lines), unique)
           ELSE <<app>> \o ReadLines(Tail(lines), unique \cup {app})

\* Faulty variant: every line is kept.
read_apps_KeepsAll(lines) == lines

read_apps(lines) == ReadLines(lines, {})

\* The threads of main: the workers (get_metadata; they are the threads that
\* call _request) and the two writers.
Workers == 1..NumWorkers
Writers == {"log", "metadata"}

\* No thread has been started, the queues and the files are empty.
ThreadsOff ==
  /\ unfinished_tasks = 0
  /\ worker = [w \in Workers |-> [pc |-> "off", app |-> ""]]
  /\ out_queue = [q \in Writers |-> <<>>]
  /\ out_file = [q \in Writers |-> <<>>]
  /\ writer = [q \in Writers |-> "off"]
  /\ put_back = [a \in Apps |-> FALSE]

\* main, lines 290-336: read the input file, put every app on the queue,
\* start the threads and wait in queues["app"].join()
MetaStart ==
  /\ prog = "metadata"
  /\ meta_pc = "start"
  /\ IF ~meta_exists
     THEN /\ meta_pc' = "input missing"
          /\ UNCHANGED << app_queue, unfinished_tasks, worker, writer >>
     ELSE \E apps \in (IF meta_random THEN Shuffles(read_apps(meta_file))
                       ELSE {read_apps(meta_file)}) :
            /\ app_queue' = app_queue \o apps
            /\ unfinished_tasks' = unfinished_tasks + Len(apps)
            /\ worker' = [w \in Workers |-> [pc |-> "get", app |-> ""]]
            /\ writer' = [q \in Writers |-> "run"]
            /\ meta_pc' = "queued"
  /\ UNCHANGED << prog, outcomes, crawlVars, meta_file, meta_exists, meta_random,
                  out_queue, out_file, put_back, limVars, apiVars >>

(***************************************************************************)
(* The values of Python that the programs handle: a node [kind, items,     *)
(* val] is None, a list of nodes, a string, a number or a boolean.         *)
(***************************************************************************)
PyNone == [kind |-> "null", items |-> <<>>, val |-> ""]
List(s) == [kind |-> "list", items |-> s, val |-> ""]
Str(v) == [kind |-> "str", items |-> <<>>, val |-> v]
Num(v) == [kind |-> "num", items |-> <<>>, val |-> v]
Bool(b) == [kind |-> "bool", items |-> <<>>, val |-> IF b THEN "True" ELSE "False"]

\* not value: the truth value of Python
Falsy(node) ==
  CASE node.kind = "null" -> TRUE
    [] node.kind = "list" -> node.items = <<>>
    [] node.kind = "str" -> node.val = ""
    [] node.kind = "num" -> node.val = "0"
    [] OTHER -> node.val = "False"

(***************************************************************************)
(* metadata_crawl.py: the threads.  An item of the app queue is an app or  *)
(* the sentinel "None"; an item of an output queue is a line [app, text],  *)
(* the sentinel -1 being the line of text "-1" of no app.  The process     *)
(* lives until main returns or an exception leaves main: all the other     *)
(* threads are daemon threads and end with it, wherever they are; worker   *)
(* and writer then keep the place each thread had reached.                 *)
(***************************************************************************)
\* What a call of details does in this model: it returns the record, or raises
\* a GooglePlayScraperException, a ValueError or OSError, or anything else.
DetailsOutcomes == {"record", "scraper error", "unknown failure", "other error"}

\* The records details returns in this model: the fields try_metadata reads.
\* released is None or a date; _download_link gives (None, None) or the link
\* with True or False.
DetailRecords ==
  { [version |-> Str("1.0"), updated |-> Num("1"), released |-> f[1],
     downloadLink |-> f[2], downloadLinkEnabled |-> f[3]] :
      f \in { <<PyNone, PyNone, PyNone>>,
              <<Str("Oct 9, 2012"), Str("link"), Bool(TRUE)>>,
              <<PyNone, Str("link"), Bool(FALSE)>> } }

\* str(value), as "{name}".format(name=value) renders it
PyStr(node) == IF node.kind = "null" THEN "None" ELSE node.val

\* Faulty variant: the two link fields are copied without bool().
reduced_metadata_NoBool(app, metadata) ==
  [app |-> Str(app), version |-> metadata.version, updated |-> metadata.updated,
   released |-> metadata.released,
   dl |-> metadata.downloadLink, dle |-> metadata.downloadLinkEnabled]

\* try_metadata, lines 105-112
reduced_metadata(app, metadata) ==
  [app |-> Str(app), version |-> metadata.version, updated |-> metadata.updated,
   released |-> metadata.released,
   dl |-> Bool(~Falsy(metadata.downloadLink)),
   dle |-> Bool(~Falsy(metadata.downloadLinkEnabled))]

\* try_metadata, lines 113-122: metadata_str.format(**reduced_metadata), as
\* the fields between its commas; a released date is put between quotes
metadata_str(reduced) ==
  LET Quoted(v) == IF v = "Oct 9, 2012" THEN "\"Oct 9, 2012\"" ELSE v
  IN  << PyStr(reduced.app), PyStr(reduced.version), PyStr(reduced.updated),
         IF Falsy(reduced.released) THEN PyStr(reduced.released)
         ELSE Quoted(PyStr(reduced.released)),
         PyStr(reduced.dl), PyStr(reduced.dle) >>

\* An item of an output queue: a line of the log, or a row of metadata.csv
\* with its fields (save_full is off: the reduced rows).
LogLine(app, text) == [app |-> app, text |-> text, row |-> <<>>]

\* Faulty variant: the first scraper error is logged too.
try_metadata_LogsFirst(app, is_retry, outcome, metadata) ==
  CASE outcome = "record" ->
         [ret |-> "True", log |-> <<LogLine(app, "written")>>,
          metadata |-> <<[app |-> app, text |-> "row",
                          row |-> metadata_str(reduced_metadata(app, metadata))]>>,
          put |-> <<>>]
    [] outcome = "scraper error" ->
         [ret |-> IF is_retry THEN "True" ELSE "False",
          log |-> <<LogLine(app, "error")>>, metadata |-> <<>>, put |-> <<>>]
    [] outcome = "unknown failure" ->
         [ret |-> "True", log |-> <<>>, metadata |-> <<>>, put |-> <<app>>]
    [] OTHER -> [ret |-> "raised", log |-> <<>>, metadata |-> <<>>, put |-> <<>>]

\* try_metadata, lines 91-137: what it returns ("raised" when the exception
\* is not caught) and the items it puts on the three queues
try_metadata(app, is_retry, outcome, metadata) ==
  LET Ret(value, log, rows, put) ==
        [ret |-> value, log |-> log, metadata |-> rows, put |-> put]
  IN  CASE outcome = "record" ->
             Ret("True", <<LogLine(app, "written")>>,
                 <<[app |-> app, text |-> "row",
                    row |-> metadata_str(reduced_metadata(app, metadata))]>>,
                 <<>>)
        [] outcome = "scraper error" ->
             IF ~is_retry THEN Ret("False", <<>>, <<>>, <<>>)
             ELSE Ret("True", <<LogLine(app, "error")>>, <<>>, <<>>)
        [] outcome = "unknown failure" -> Ret("True", <<>>, <<>>, <<app>>)
        [] OTHER -> Ret("raised", <<>>, <<>>, <<>>)

\* main has started the threads and neither returned nor been interrupted
MainWaits == meta_pc \in {"queued", "join log", "join metadata"}

\* get_metadata, lines 140-143: a worker takes an item from the app queue
GetApp(w) ==
  /\ prog = "metadata"
  /\ MainWaits
  /\ worker[w].pc = "get"
  /\ app_queue # <<>>
  /\ app_queue' = Tail(app_queue)
  /\ worker' = [worker EXCEPT
                  ![w] = IF Head(app_queue) = "None"
                         THEN [pc |-> "exited", app |-> ""]
                         ELSE [pc |-> "try", app |-> Head(app_queue)]]
  /\ UNCHANGED << prog, outcomes, crawlVars, meta_pc, meta_file, meta_exists,
                  meta_random, unfinished_tasks, out_queue, out_file, writer,
                  put_back, limVars, apiVars >>

\* get_metadata, lines 145-148: one call of try_metadata, the first or the
\* retry, then task_done unless a retry is due or the thread has died
TryMetadata(w) ==
  /\ prog = "metadata"
  /\ MainWaits
  /\ worker[w].pc \in {"try", "retry"}
  /\ \E outcome \in DetailsOutcomes, metadata \in DetailRecords :
       LET app == worker[w].app
           r == try_metadata(app, worker[w].pc = "retry", outcome, metadata)
           again == worker[w].pc = "try" /\ r.ret = "False"
           done == ~again /\ r.ret # "raised"
       IN  /\ out_queue' = [out_queue EXCEPT
                              !["log"] = @ \o r.log,
                              !["metadata"] = @ \o r.metadata]
           /\ app_queue' = app_queue \o r.put
           /\ unfinished_tasks' =
                unfinished_tasks + Len(r.put) - (IF done THEN 1 ELSE 0)
           /\ worker' = [worker EXCEPT
                           ![w] = IF r.ret = "raised" THEN [pc |-> "died", app |-> app]
                                  ELSE IF again THEN [pc |-> "retry", app |-> app]
                                  ELSE [pc |-> "get", app |-> ""]]
           /\ put_back' = [put_back EXCEPT
                             ![app] = @ \/ (worker[w].pc = "retry" /\ r.put # <<>>)]
  /\ UNCHANGED << prog, outcomes, crawlVars, meta_pc, meta_file, meta_exists,
                  meta_random, out_file, writer, limVars, apiVars >>

\* logging, lines 158-164 (write_full, lines 175-190, for the full records):
\* a writer takes an item from its queue and appends it to its file
Logging(q) ==
  /\ prog = "metadata"
  /\ MainWaits
  /\ writer[q] = "run"
  /\ out_queue[q] # <<>>
  /\ out_queue' = [out_queue EXCEPT ![q] = Tail(@)]
  /\ IF Head(out_queue[q]).text = "-1"
     THEN /\ writer' = [writer EXCEPT ![q] = "exited"]
          /\ out_file' = out_file
     ELSE /\ out_file' = [out_file EXCEPT ![q] = Append(@, Head(out_queue[q]))]
          /\ writer' = writer
  /\ UNCHANGED << prog, outcomes, crawlVars, meta_pc, meta_file, meta_exists,
                  meta_random, app_queue, unfinished_tasks, worker, put_back,
                  limVars, apiVars >>

\* Faulty variant: the join does not wait.
Joined_NoWait(items) == TRUE

\* Queue.join of an output queue returns when every item put on it was taken
\* and followed by task_done, that is, written: a writer calls task_done
\* after the write (lines 162-164) and takes no other item in between.
Joined(items) == items = <<>>

\* main, lines 336-350: a join returns when its queue has no unfinished
\* task; main then puts the sentinels, and after the last join writes the
\* finish line and returns
Join ==
  /\ prog = "metadata"
  /\ CASE meta_pc = "queued" ->
            /\ unfinished_tasks = 0
            /\ app_queue' = app_queue \o [i \in 1..NumWorkers |-> "None"]
            /\ unfinished_tasks' = unfinished_tasks + NumWorkers
            /\ meta_pc' = "join log"
            /\ UNCHANGED << worker, out_queue, out_file, writer >>
       [] meta_pc = "join log" ->
            /\ Joined(out_queue["log"])
            /\ out_queue' = [out_queue EXCEPT !["log"] = Append(@, LogLine("", "-1"))]
            /\ meta_pc' = "join metadata"
            /\ UNCHANGED << app_queue, unfinished_tasks, worker, out_file, writer >>
       [] meta_pc = "join metadata" ->
            /\ Joined(out_queue["metadata"])
            /\ out_queue' = [out_queue EXCEPT !["metadata"] = Append(@, LogLine("", "-1"))]
            /\ out_file' = [out_file EXCEPT
                              !["log"] = Append(@, LogLine("", "Finished crawl"))]
            /\ meta_pc' = "finished"
            /\ UNCHANGED << app_queue, unfinished_tasks, worker, writer >>
       [] OTHER -> FALSE
  /\ UNCHANGED << prog, outcomes, crawlVars, meta_file, meta_exists, meta_random,
                  put_back, limVars, apiVars >>

\* The interrupt signal: KeyboardInterrupt is raised in the main thread,
\* which waits in a join; nothing in main catches it, main ends, and the
\* process ends with it.
Interrupt ==
  /\ prog = "metadata"
  /\ MainWaits
  /\ meta_pc' = "interrupted"
  /\ UNCHANGED << prog, outcomes, crawlVars, meta_file, meta_exists, meta_random,
                  app_queue, unfinished_tasks, worker, out_queue, out_file, writer,
                  put_back, limVars, apiVars >>

(***************************************************************************)
(* mpyscraper/utils.py: _request behind sleep_and_retry(limits(5, 1)).     *)
(* The decorators are those of the ratelimit package: limits keeps         *)
(* num_calls and last_reset under a lock, resets both when the period has  *)
(* elapsed since last_reset, and raises RateLimitException(period          *)
(* remaining) past the call count; sleep_and_retry sleeps that long and    *)
(* calls again.  The workers are the threads that call _request.           *)
(***************************************************************************)
CALLS == 5
PERIOD == 1

Ticks == 0..MaxClock
PeriodTicks == PERIOD * TicksPerSecond

\* limits: period - (clock() - last_reset)
PeriodRemaining(now, last) == PeriodTicks - (now - last)

\* limits: the window has elapsed, the counter starts again
WindowElapsed(now, last) == PeriodRemaining(now, last) <= 0

\* limits: the call is past the count of the window
OverLimit(n) == n > CALLS

\* The places of the scraping engine that send a request: the detail page
\* (api.py:43), the seed page of a pagination (utils.py:217), a continuation
\* request (utils.py:187) and its re-send after the marker (utils.py:192).
CallSites == {"detail", "seed", "continuation", "resend"}

\* Faulty variant: the re-send opens the URL itself.
Callee_ResendDirect(o) == IF o = "resend" THEN "urlopen" ELSE "_request"

\* The function each place calls.  The name _request is bound to the
\* decorated function (utils.py:89-91): a call of it goes through the limiter.
Callee(o) == "_request"

\* The timeout urlopen and opener.open are given at lines 105 and 107: none
\* is passed, and the default of the socket module is None (wait for ever).
urlopen_timeout == None

\* One call of _request by worker w from one of the call sites: the wrapper
\* of limits, under its lock.  The call is let through to urlopen, or the
\* worker goes to sleep in sleep_and_retry and makes the same call again.
\* The call site is recorded when the call reaches urlopen.
Request(w) ==
  /\ prog = "scraper"
  /\ wstate[w] = "ready"
  /\ \E o \in CallSites :
       IF Callee(o) = "_request"
       THEN LET elapsed == WindowElapsed(clock, last_reset)
                n == (IF elapsed THEN 0 ELSE num_calls) + 1
            IN  /\ last_reset' = (IF elapsed THEN clock ELSE last_reset)
                /\ num_calls' = n
                /\ IF OverLimit(n)
                   THEN /\ wstate' = [wstate EXCEPT ![w] = "sleeping"]
                        /\ wake' = [wake EXCEPT
                                      ![w] = clock + PeriodRemaining(clock, last_reset)]
                        /\ UNCHANGED << site, admitted, opened >>
                   ELSE /\ admitted' = [admitted EXCEPT ![clock] = @ + 1]
                        /\ opened' = [opened EXCEPT ![clock] = @ + 1]
                        /\ wstate' = [wstate EXCEPT ![w] = "in flight"]
                        /\ site' = [site EXCEPT ![w] = o]
                        /\ wake' = wake
       ELSE /\ opened' = [opened EXCEPT ![clock] = @ + 1]
            /\ wstate' = [wstate EXCEPT ![w] = "in flight"]
            /\ site' = [site EXCEPT ![w] = o]
            /\ UNCHANGED << last_reset, num_calls, wake, admitted >>
  /\ UNCHANGED << prog, outcomes, crawlVars, metaVars, apiVars, clock >>

\* urlopen returns or raises: the response, an HTTP error or a transport error
\* has arrived, and _request ends (lines 108-115).
Arrive(w) ==
  /\ prog = "scraper"
  /\ wstate[w] = "in flight"
  /\ wstate' = [wstate EXCEPT ![w] = "ready"]
  /\ site' = [site EXCEPT ![w] = "none"]
  /\ UNCHANGED << prog, outcomes, crawlVars, metaVars, apiVars, clock, last_reset,
                  num_calls, wake, admitted, opened >>

\* sleep_and_retry: time.sleep(period_remaining) is over, the call is made again
WakeUp(w) ==
  /\ prog = "scraper"
  /\ wstate[w] = "sleeping"
  /\ clock >= wake[w]
  /\ wstate' = [wstate EXCEPT ![w] = "ready"]
  /\ UNCHANGED << prog, outcomes, crawlVars, metaVars, apiVars, clock, last_reset,
                  num_calls, wake, site, admitted, opened >>

\* Time passes.
Tick ==
  /\ prog = "scraper"
  /\ clock < MaxClock
  /\ clock' = clock + 1
  /\ UNCHANGED << prog, outcomes, crawlVars, metaVars, apiVars, last_reset, num_calls,
                  wstate, wake, site, admitted, opened >>

(***************************************************************************)
(* mpyscraper/element.py: nested_lookup and ElementSpec.extract_content.   *)
(*                                                                         *)
(* A value decoded from JSON is a node [kind, items, val]: None, a list of *)
(* nodes, a string, a number or a boolean.  Python indexes are kept (they  *)
(* start at 0).  A call returns a value or raises: [exc, value], where exc *)
(* is "" or the name of the exception.                                     *)
(***************************************************************************)
Returns(v) == [exc |-> "", value |-> v]
Raises(e) == [exc |-> e, value |-> PyNone]

\* The characters of the strings of this model.
Chars(v) ==
  CASE v = "" -> <<>>
    [] v = "PlayDataError" ->
         <<"P", "l", "a", "y", "D", "a", "t", "a", "E", "r", "r", "o", "r">>
    [] v = "4.4 and up" -> <<"4", ".", "4", " ", "a", "n", "d", " ", "u", "p">>
    [] v = "4.4" -> <<"4", ".", "4">>
    [] v = "US" -> <<"U", "S">>
    [] v = "en" -> <<"e", "n">>
    [] v = "link" -> <<"l", "i", "n", "k">>
    [] OTHER -> <<v>>

\* source[i]
Index(node, i) ==
  CASE node.kind = "list" ->
         IF i < Len(node.items) THEN Returns(node.items[i + 1])
         ELSE Raises("IndexError")
    [] node.kind = "str" ->
         IF i < Len(Chars(node.val)) THEN Returns(Str(Chars(node.val)[i + 1]))
         ELSE Raises("IndexError")
    [] OTHER -> Raises("TypeError")

\* len(source)
PyLen(node) ==
  CASE node.kind = "list" -> Returns(Len(node.items))
    [] node.kind = "str" -> Returns(Len(Chars(node.val)))
    [] OTHER -> Raises("TypeError")

\* element.py:24-30
RECURSIVE nested_lookup(_, _)
nested_lookup(src, indexes) ==
  IF Falsy(src) THEN Returns(src)
  ELSE IF Len(indexes) = 1 THEN Index(src, indexes[1])
  ELSE LET n == PyLen(src)
       IN  IF n.exc # "" THEN Raises(n.exc)
           ELSE IF indexes[1] >= n.value THEN Returns(PyNone)
           ELSE nested_lookup(Index(src, indexes[1]).value, Tail(indexes))

\* The post-processors of the registry DETAIL that this model keeps:
\* none, bool (offersIAP, containsAds) and lambda s: s.split()[0]
\* (androidVersion).
Words(v) ==
  CASE v = "" -> <<>>
    [] v = "4.4 and up" -> <<"4.4", "and", "up">>
    [] OTHER -> <<v>>

post_process(name, value) ==
  CASE name = "bool" -> Returns(Bool(~Falsy(value)))
    [] name = "split" ->
         IF value.kind # "str" THEN Raises("AttributeError")
         ELSE IF Words(value.val) = <<>> THEN Raises("IndexError")
         ELSE Returns(Str(Words(value.val)[1]))
    [] OTHER -> Returns(value)

ElementSpec(ds_num, extraction_map, post_processor, fallback) ==
  [ds_num |-> ds_num, extraction_map |-> extraction_map,
   post_processor |-> post_processor,
   post_processor_except_fallback |-> fallback]

\* Faulty variant: the callback is not chosen by the ds_num of the spec.
Lookup_AnyDataset(spec, src) ==
  IF DOMAIN src = {} THEN Raises("KeyError")
  ELSE nested_lookup(src[CHOOSE k \in DOMAIN src : TRUE], spec.extraction_map)

\* source["ds:N"], then nested_lookup; lines 59-64
Lookup(spec, src) ==
  IF spec.ds_num \notin DOMAIN src THEN Raises("KeyError")
  ELSE nested_lookup(src[spec.ds_num], spec.extraction_map)

\* lines 66-70
PostProcessed(spec, raw) ==
  LET r == post_process(spec.post_processor, raw)
  IN  IF r.exc # "" THEN Returns(spec.post_processor_except_fallback) ELSE r

\* ElementSpec.extract_content, lines 59-72
extract_content(spec, src) ==
  LET r == Lookup(spec, src)
      result == IF r.exc \in {"KeyError", "IndexError", "TypeError"}
                THEN PyNone ELSE r.value
  IN  IF r.exc \notin {"", "KeyError", "IndexError", "TypeError"} THEN r
      ELSE IF result # PyNone /\ spec.post_processor # "none"
           THEN PostProcessed(spec, result)
           ELSE Returns(result)

\* The nested lists of at most MaxNodes nodes.
Leaves == {PyNone, Str("x"), Num("1")}

RECURSIVE TreesOfSize(_)
RECURSIVE ForestsOfSize(_)
TreesOfSize(n) ==
  IF n = 1 THEN Leaves \cup {List(<<>>)}
  ELSE {List(f) : f \in ForestsOfSize(n - 1)}
ForestsOfSize(n) ==
  IF n = 0 THEN {<<>>}
  ELSE UNION {{<<t>> \o f : t \in TreesOfSize(k), f \in ForestsOfSize(n - k)} :
              k \in 1..n}

Trees == UNION {TreesOfSize(n) : n \in 1..MaxNodes}

\* The dataset maps: no callback, or one callback "ds:3" or "ds:5".
DsNums == {3, 5}
DatasetMaps ==
  {<<>>} \cup UNION {{(k :> t) : t \in Trees} : k \in DsNums}

Paths == SeqsUpTo({0, 1}, MaxNodes - 1) \ {<<>>}

ElementSpecs ==
  {ElementSpec(k, p, f[1], f[2]) :
     k \in DsNums, p \in Paths,
     f \in {<<"none", PyNone>>, <<"bool", PyNone>>, <<"bool", Bool(FALSE)>>,
            <<"split", PyNone>>, <<"split", List(<<>>)>>}}

\* The node of a nested list at a path of indexes that are all within bounds.
RECURSIVE Grafted(_, _, _)
Grafted(tree, path, by) ==
  IF path = <<>> THEN by
  ELSE List([i \in DOMAIN tree.items |->
               IF i = path[1] + 1 THEN Grafted(tree.items[i], Tail(path), by)
               ELSE tree.items[i]])

RECURSIVE Positions(_)
Positions(tree) ==
  {<<>>} \cup
  (IF tree.kind # "list" THEN {}
   ELSE UNION {{<<i - 1>> \o p : p \in Positions(tree.items[i])} :
               i \in DOMAIN tree.items})

NoGraft == [ds_num |-> 0, at |-> <<>>, by |-> PyNone]

\* One call of spec.extract_content(source), as in api.py:48-50.
Extract ==
  /\ prog = "extract"
  /\ tree_pc = "given"
  /\ content' = extract_content(element, source)
  /\ tree_pc' = "extracted"
  /\ UNCHANGED << prog, outcomes, crawlVars, metaVars, limVars, scrapeVars,
                  source, element, graft, content_other >>

\* The same call on a dataset map that differs from source inside one
\* sub-tree only: the block at one position is left out there (None or []).
ExtractOther ==
  /\ prog = "extract"
  /\ tree_pc = "extracted"
  /\ graft = NoGraft
  /\ \E k \in DOMAIN source :
       \E at \in Positions(source[k]) \ {<<>>} :
         \E by \in {PyNone, List(<<>>)} :
           /\ Grafted(source[k], at, by) # source[k]
           /\ graft' = [ds_num |-> k, at |-> at, by |-> by]
           /\ content_other' =
                extract_content(element,
                                [source EXCEPT ![k] = Grafted(source[k], at, by)])
  /\ UNCHANGED << prog, outcomes, crawlVars, metaVars, limVars, scrapeVars,
                  tree_pc, source, element, content >>

(***************************************************************************)
(* mpyscraper/utils.py and api.py: one call of the scraping API.           *)
(*                                                                         *)
(* A call builds its URL (_build_url), fetches the page (_request), parses *)
(* it (_parse_response) and either builds the record of the app (details)  *)
(* or pages through the results (_cluster_request, _get_ui_request).  The  *)
(* steps of the model are the calls of _request: an action is one fetch    *)
(* and the code that runs until the next fetch.  The environment chooses   *)
(* what each fetch meets: a transport failure (status 0), an HTTP error    *)
(* status, or a body.  Bodies are text in UTF-8.                           *)
(***************************************************************************)
\* _build_url, lines 28-39: the names each format string refers to.
Templates ==
  ("details" :> {"func", "id", "hl", "gl"}) @@
  ("search" :> {"func", "id", "hl", "gl"}) @@
  ("collection" :> {"func", "id", "hl", "gl"}) @@
  ("filtered" :> {"collection", "category", "hl", "gl"}) @@
  ("ui" :> {"hl", "gl"})

NoUrl == [url_type |-> "", params |-> {}]
NoException == [name |-> "", from |-> ""]

\* Faulty variant: a missing parameter is left out of the URL.
_build_url_Lenient(url_type, params) ==
  IF url_type \notin DOMAIN Templates
  THEN [exc |-> "InvalidURLError", url |-> NoUrl]
  ELSE [exc |-> "", url |-> [url_type |-> url_type,
                             params |-> Templates[url_type] \cap params]]

\* _build_url, lines 27-42; params is the set of the keys of the dict
_build_url(url_type, params) ==
  IF url_type \notin DOMAIN Templates
  THEN [exc |-> "InvalidURLError", url |-> NoUrl]
  ELSE IF ~(Templates[url_type] \subseteq params)
  THEN [exc |-> "InvalidURLError", url |-> NoUrl]
  ELSE [exc |-> "", url |-> [url_type |-> url_type,
                             params |-> Templates[url_type]]]

\* What a fetch meets, and what _request makes of it.
Body(text, blocks, button, page) ==
  [text |-> text, blocks |-> blocks, button |-> button, page |-> page]
NoBody == Body("", <<>>, "none", PyNone)
Met(status, body, served) == [status |-> status, body |-> body, served |-> served]
Fetched(exc, code, body) == [exc |-> exc, code |-> code, body |-> body]

\* Faulty variant: every HTTP error is reported as a page not found.
_request_AllNotFound(met) ==
  CASE met.status = 0 -> Fetched("URLError", 0, NoBody)
    [] met.status = 200 -> Fetched("", 0, met.body)
    [] OTHER -> Fetched("NotFoundError", 0, NoBody)

\* _request, lines 101-115
_request(met) ==
  CASE met.status = 0 -> Fetched("URLError", 0, NoBody)
    [] met.status = 200 -> Fetched("", 0, met.body)
    [] met.status = 404 -> Fetched("NotFoundError", 0, NoBody)
    [] OTHER -> Fetched("ExtraHTTPError", met.status, NoBody)

\* A script block of a page: the number of its key "ds:N" (0 when KEY does
\* not match), whether VALUE matches, and whether the payload is JSON.
Block(key, payload, data) == [key |-> key, payload |-> payload, data |-> data]

\* _parse_response, lines 55-63: res is acc, updated block after block
RECURSIVE _parse_response(_, _)
_parse_response(blocks, acc) ==
  IF blocks = <<>> THEN Returns(acc)
  ELSE LET b == Head(blocks)
       IN  IF b.key = 0 \/ b.payload = "none"
           THEN _parse_response(Tail(blocks), acc)
           ELSE IF b.payload = "bad" THEN Raises("JSONDecodeError")
           ELSE _parse_response(Tail(blocks),
                               [k \in DOMAIN acc \cup {b.key} |->
                                  IF k = b.key THEN b.data ELSE acc[k]])

\* _parse_app_list, line 158: nested_lookup(app, [12, 0]) for each app
RECURSIVE LookedUp(_)
LookedUp(items) ==
  IF items = <<>> THEN Returns(<<>>)
  ELSE LET first == nested_lookup(Head(items), <<12, 0>>)
           rest == LookedUp(Tail(items))
       IN  IF first.exc # "" THEN first
           ELSE IF rest.exc # "" THEN rest
           ELSE Returns(<<first.value>> \o rest.value)

\* _parse_app_list, lines 158-159 (num is None, detail is False)
_parse_app_list(apps) ==
  LET items ==
        CASE apps.kind = "list" -> Returns(apps.items)
          [] apps.kind = "str" ->
               Returns([i \in DOMAIN Chars(apps.val) |-> Str(Chars(apps.val)[i])])
          [] OTHER -> Raises("TypeError")
  IN  IF items.exc # "" THEN items ELSE LookedUp(items.value)

\* element.py:146-150
CLUSTER ==
  ("apps" :> ElementSpec(3, <<0, 1, 0, 0, 0>>, "none", PyNone)) @@
  ("token" :> ElementSpec(3, <<0, 1, 0, 0, 7, 1>>, "none", PyNone))

\* element.py:80-144, the elements of ds:5 and ds:8 this model keeps
DETAIL ==
  ("title" :> ElementSpec(5, <<0, 0, 0>>, "none", PyNone)) @@
  ("size" :> ElementSpec(8, <<0>>, "none", PyNone)) @@
  ("version" :> ElementSpec(8, <<1>>, "none", PyNone)) @@
  ("androidVersion" :> ElementSpec(8, <<2>>, "split", PyNone))

\* _download_link, lines 75-86: the first button with an offer, if any
_download_link(button) ==
  CASE button = "none" -> Returns(<<PyNone, PyNone>>)
    [] button = "enabled" -> Returns(<<Str("link"), Bool(TRUE)>>)
    [] button = "disabled" -> Returns(<<Str("link"), Bool(FALSE)>>)
    [] OTHER -> Raises("IndexError")

Max(S) == CHOOSE x \in S : \A y \in S : x >= y

\* details, lines 45-52, on the parsed response res
details_record(app_id, target, parsed_res, button) ==
  IF DOMAIN parsed_res = {} THEN Raises("ValueError")
  ELSE LET located == parsed_res[Max(DOMAIN parsed_res)]
           location == Index(located, 4)
           language == Index(located, 5)
           link == _download_link(button)
       IN  IF location.exc # "" THEN location
           ELSE IF language.exc # "" THEN language
           ELSE IF link.exc # "" THEN link
           ELSE Returns(
                  [f \in DOMAIN DETAIL |-> extract_content(DETAIL[f], parsed_res).value]
                  @@ ("appId" :> Str(app_id))
                  @@ ("url" :> Str(target.url_type))
                  @@ ("siteLocation" :> location.value)
                  @@ ("siteLanguage" :> language.value)
                  @@ ("downloadLink" :> link.value[1])
                  @@ ("downloadLinkEnabled" :> link.value[2]))

\* _get_ui_request, line 190: the retries of a request that meets the marker
RETRIES == 5

\* Faulty variant: a failure in the loop loses what was collected.
on_loop_failure_Discards(collected) == <<>>

\* _cluster_request, lines 229-230
on_loop_failure(collected) == collected

\* Faulty variant: the new page is put before the results so far.
appended_Before(collected, page) == page \o collected

\* _cluster_request, line 227
appended(collected, page) == collected \o page

\* _cluster_request, lines 226-228 and the test of line 223, on the value
\* resp that _get_ui_request returned
loop_body(collected, resp) ==
  LET apps == nested_lookup(resp, <<0, 0, 0>>)
      page == IF apps.exc # "" THEN apps ELSE _parse_app_list(apps.value)
      next == nested_lookup(resp, <<0, 0, 7, 1>>)
  IN  IF page.exc # ""
      THEN [results |-> on_loop_failure(collected), token |-> PyNone, done |-> TRUE]
      ELSE IF next.exc # ""
      THEN [results |-> on_loop_failure(appended(collected, page.value)),
            token |-> PyNone, done |-> TRUE]
      ELSE [results |-> appended(collected, page.value), token |-> next.value,
            done |-> Falsy(next.value)]

(***************************************************************************)
(* The pages the storefront serves in this model.  What a fetch meets is   *)
(* [status, body, served]; served says for the history what a result page  *)
(* lists: its ids (NoApps when it has no list) and its token ("t"; "none"  *)
(* when the token block is None, "cut" when it is too short).              *)
(***************************************************************************)
NoApps == <<"no list">>
NothingServed == [ids |-> NoApps, token |-> "none"]

\* The block of a result page: the apps at [0], each with its id at
\* [12, 0], and the token at [7, 1].
ResultBlock(ids, tok) ==
  LET Nones(n) == [i \in 1..n |-> PyNone]
      AppEntry(id) == List(Nones(12) \o <<List(<<Str(id)>>)>>)
      apps == IF ids = NoApps THEN PyNone
              ELSE List([i \in DOMAIN ids |-> AppEntry(ids[i])])
      block == CASE tok = "none" -> PyNone
                 [] tok = "cut" -> List(<<PyNone>>)
                 [] OTHER -> List(<<PyNone, Str(tok)>>)
  IN  List(<<apps>> \o Nones(6) \o <<block>>)

\* The seed page holds the block at [0, 1, 0, 0] of ds:3, a batch response
\* holds it at [0, 0].
SeedTree(ids, tok) ==
  List(<<List(<<PyNone, List(<<List(<<ResultBlock(ids, tok)>>)>>)>>)>>)
BatchTree(ids, tok) == List(<<List(<<ResultBlock(ids, tok)>>)>>)

\* The pages _request is asked for first: result pages and pages of an app.
SeedPages ==
  LET Cluster(ids, tok) == Block(3, "json", SeedTree(ids, tok))
      Detail5 == Block(5, "json", List(<<List(<<List(<<Str("x")>>)>>)>>))
      Version8 == Block(8, "json", List(<<Str("x"), Str("x"), Str("4.4 and up")>>))
      Version8Short == Block(8, "json", List(<<Str("x")>>))
      Location20 ==
        Block(20, "json",
              List(<<PyNone, PyNone, PyNone, PyNone, Str("US"), Str("en")>>))
      Undecodable == Block(5, "bad", PyNone)
      Unkeyed == Block(0, "json", PyNone)
      Valueless == Block(8, "none", PyNone)
      Page(blocks, button, ids, tok) ==
        Met(200, Body("html", blocks, button, PyNone), [ids |-> ids, token |-> tok])
  IN  { Page(<<Cluster(<<"a">>, "t")>>, "none", <<"a">>, "t"),
        Page(<<Cluster(<<"a">>, "none")>>, "none", <<"a">>, "none"),
        Page(<<Unkeyed, Cluster(<<"b">>, "t"), Valueless>>, "none", <<"b">>, "t"),
        Page(<<Cluster(NoApps, "t")>>, "none", NoApps, "t"),
        Page(<<Cluster(<<"a">>, "t"), Undecodable>>, "none", <<"a">>, "t") }
      \cup
      {Page(blocks, "none", NoApps, "none") :
         blocks \in { <<>>, <<Unkeyed, Valueless>>, <<Undecodable, Location20>>,
                      <<Detail5, Version8Short, Location20>>, <<Location20>>,
                      <<Detail5, Version8>> }}
      \cup
      {Page(<<Detail5, Version8, Location20>>, button, NoApps, "none") :
         button \in {"none", "enabled", "disabled", "no url"}}

\* The batch responses: the marker, text that is no JSON, or a result page;
\* a result page carries a token only when more pages are to come.
BatchPages(more) ==
  {Met(200, Body(text, <<>>, "none", PyNone), NothingServed) :
     text \in {"marker", "garbage"}}
  \cup {Met(200, Body("json", <<>>, "none", BatchTree(ids, tok)),
            [ids |-> ids, token |-> tok]) :
          ids \in {<<"a">>, <<"b", "a">>, NoApps},
          tok \in (IF more THEN {"t", "none", "cut"} ELSE {"none", "cut"})}

\* A transport failure (status 0), an HTTP error status, or one of the pages.
MetBy(pages) ==
  {Met(status, NoBody, NothingServed) : status \in {0, 404, 500}} \cup pages

\* resp.find("PlayDataError") != -1
HasMarker(body) == body.text = "marker"
MarkerText == Str("PlayDataError")

(***************************************************************************)
(* The calls of the API.                                                   *)
(***************************************************************************)
\* details and search with the parameters of api.py:38-41 and 116-119, or
\* _build_url alone with any kind and any parameters.
Calls ==
  {[func |-> f, url_type |-> f, params |-> {"func", "id", "hl", "gl"}] :
     f \in {"details", "search"}}
  \cup {[func |-> "_build_url", url_type |-> t, params |-> p] :
          t \in DOMAIN Templates \cup {"reviews"},
          p \in SUBSET {"func", "id", "hl", "gl", "collection", "category"}}

NoFetch ==
  [met |-> Met(0, NoBody, NothingServed), got |-> Fetched("", 0, NoBody),
   count |-> 0]

\* api.py:38-42 (details), 116-120 (search): the URL of the call
BuildUrl ==
  /\ prog = "api"
  /\ api_pc = "call"
  /\ LET built == _build_url(call.url_type, call.params)
     IN  /\ url' = built.url
         /\ IF built.exc # ""
            THEN /\ api_pc' = "raised"
                 /\ api_exc' = [name |-> built.exc, from |-> "_build_url"]
            ELSE /\ api_pc' = (IF call.func = "_build_url" THEN "built" ELSE "seed")
                 /\ api_exc' = api_exc
  /\ UNCHANGED << prog, outcomes, crawlVars, metaVars, limVars, treeVars, call,
                  fetch, res, record, results, token, retry, pageVars >>

\* details, api.py:43-52
Details ==
  /\ prog = "api"
  /\ api_pc = "seed"
  /\ call.func = "details"
  /\ \E met \in MetBy(SeedPages) :
       LET got == _request(met)
           parsed == _parse_response(got.body.blocks, <<>>)
           built == details_record("a", url, parsed.value, got.body.button)
       IN  /\ fetch' = [met |-> met, got |-> got, count |-> fetch.count + 1]
           /\ IF got.exc # ""
              THEN /\ api_pc' = "raised"
                   /\ api_exc' = [name |-> got.exc, from |-> "_request"]
                   /\ UNCHANGED << res, record >>
              ELSE IF parsed.exc # ""
              THEN /\ api_pc' = "raised"
                   /\ api_exc' = [name |-> parsed.exc, from |-> "_parse_response"]
                   /\ UNCHANGED << res, record >>
              ELSE /\ res' = parsed.value
                   /\ IF built.exc # ""
                      THEN /\ api_pc' = "raised"
                           /\ api_exc' = [name |-> built.exc, from |-> "details"]
                           /\ record' = record
                      ELSE /\ api_pc' = "returned"
                           /\ api_exc' = api_exc
                           /\ record' = built.value
  /\ UNCHANGED << prog, outcomes, crawlVars, metaVars, limVars, treeVars, call,
                  url, results, token, retry, pageVars >>

\* _cluster_request, lines 217-223: the seed page and the first test of the
\* token
ClusterSeed ==
  /\ prog = "api"
  /\ api_pc = "seed"
  /\ call.func = "search"
  /\ \E met \in MetBy(SeedPages) :
       LET got == _request(met)
           parsed == _parse_response(got.body.blocks, <<>>)
           apps == extract_content(CLUSTER["apps"], parsed.value)
           first == extract_content(CLUSTER["token"], parsed.value)
           page == _parse_app_list(apps.value)
       IN  /\ fetch' = [met |-> met, got |-> got, count |-> fetch.count + 1]
           /\ IF got.exc # ""
              THEN /\ api_pc' = "raised"
                   /\ api_exc' = [name |-> got.exc, from |-> "_request"]
                   /\ UNCHANGED << res, results, token, loaded, tokens >>
              ELSE IF parsed.exc # ""
              THEN /\ api_pc' = "raised"
                   /\ api_exc' = [name |-> parsed.exc, from |-> "_parse_response"]
                   /\ UNCHANGED << res, results, token, loaded, tokens >>
              ELSE /\ res' = parsed.value
                   /\ IF page.exc # ""
                      THEN /\ api_pc' = "raised"
                           /\ api_exc' = [name |-> page.exc, from |-> "_cluster_request"]
                           /\ UNCHANGED << results, token, loaded, tokens >>
                      ELSE /\ results' = page.value
                           /\ token' = first.value
                           /\ loaded' = <<met.served.ids>>
                           /\ tokens' = (IF met.served.token = "t" THEN 1 ELSE 0)
                           /\ api_pc' = (IF Falsy(first.value) THEN "returned" ELSE "loop")
                           /\ api_exc' = api_exc
  /\ UNCHANGED << prog, outcomes, crawlVars, metaVars, limVars, treeVars, call,
                  url, record, retry, requests, attempts, failed, gave_up, marked >>

\* One call of _request in _get_ui_request (line 187 when api_pc is "loop",
\* line 192 when it is "retry") and what follows it until the next call:
\* the test of the marker, and once the loop of _get_ui_request is left,
\* lines 194 and 226-228 and the test of the token of line 223.
UiRequest ==
  /\ prog = "api"
  /\ api_pc \in {"loop", "retry"}
  /\ \E met \in MetBy(BatchPages(Len(loaded) < MaxPages)) :
       LET got == _request(met)
           tried == IF api_pc = "loop" THEN 0 ELSE retry + 1
           again == got.exc = "" /\ HasMarker(got.body) /\ tried # RETRIES
           given_up == got.exc = "" /\ HasMarker(got.body) /\ tried = RETRIES
           decoded == IF given_up THEN Returns(MarkerText)
                      ELSE IF got.body.text = "json" THEN Returns(got.body.page)
                      ELSE Raises("JSONDecodeError")
           step == loop_body(results, decoded.value)
       IN  /\ fetch' = [met |-> met, got |-> got, count |-> fetch.count + 1]
           /\ requests' = requests + 1
           /\ attempts' = (IF api_pc = "loop" THEN 1 ELSE attempts + 1)
           /\ retry' = tried
           /\ marked' = (marked \/ (got.exc = "" /\ HasMarker(got.body)))
           /\ gave_up' = given_up
           /\ IF got.exc # "" \/ (~again /\ decoded.exc # "")
              THEN /\ api_pc' = "returned"
                   /\ results' = on_loop_failure(results)
                   /\ failed' = (IF got.exc # "" THEN "fetch" ELSE "parse")
                   /\ UNCHANGED << token, loaded, tokens >>
              ELSE IF again
              THEN /\ api_pc' = "retry"
                   /\ UNCHANGED << results, token, loaded, tokens, failed >>
              ELSE /\ api_pc' = (IF step.done THEN "returned" ELSE "loop")
                   /\ results' = step.results
                   /\ token' = step.token
                   /\ loaded' = (IF given_up \/ met.served.ids = NoApps THEN loaded
                                 ELSE Append(loaded, met.served.ids))
                   /\ tokens' = (IF ~given_up /\ met.served.token = "t"
                                    /\ met.served.ids # NoApps
                                 THEN tokens + 1 ELSE tokens)
                   /\ failed' = (IF given_up THEN ""
                                 ELSE IF met.served.ids = NoApps THEN "parse"
                                 ELSE IF met.served.token = "cut" THEN "navigation"
                                 ELSE "")
  /\ UNCHANGED << prog, outcomes, crawlVars, metaVars, limVars, treeVars, call,
                  url, api_exc, res, record >>

(***************************************************************************)
(* Initial states and specification.                                       *)
(***************************************************************************)
\* The lines an input file of the crawler holds in this model.
InputFileLines == {" a ", "b", "# note", ""}

\* The outcomes of download() in the behaviours with several runs.
ResumeOutcomes == {Success, Failure(NotFoundMsg), Failure(UnknownMsg)}

MetaIdle ==
  /\ meta_pc = "idle"
  /\ meta_file = <<>>
  /\ meta_exists = FALSE
  /\ meta_random = FALSE
  /\ app_queue = <<>>
  /\ ThreadsOff

LimiterIdle ==
  /\ clock = 0
  /\ last_reset = 0
  /\ num_calls = 0
  /\ wstate = [w \in Workers |-> "ready"]
  /\ wake = [w \in Workers |-> 0]
  /\ site = [w \in Workers |-> "none"]
  /\ admitted = [t \in Ticks |-> 0]
  /\ opened = [t \in Ticks |-> 0]

TreeIdle ==
  /\ tree_pc = "idle"
  /\ source = <<>>
  /\ element = ElementSpec(0, <<0>>, "none", PyNone)
  /\ content = Returns(PyNone)
  /\ graft = NoGraft
  /\ content_other = Returns(PyNone)

ScrapeIdle ==
  /\ api_pc = "idle"
  /\ call = [func |-> "", url_type |-> "", params |-> {}]
  /\ url = NoUrl
  /\ api_exc = NoException
  /\ fetch = NoFetch
  /\ res = <<>>
  /\ record = <<>>
  /\ results = <<>>
  /\ token = PyNone
  /\ retry = 0
  /\ loaded = <<>>
  /\ tokens = 0
  /\ requests = 0
  /\ attempts = 0
  /\ failed = ""
  /\ gave_up = FALSE
  /\ marked = FALSE

ApiIdle == TreeIdle /\ ScrapeIdle

CrawlerOff ==
  /\ outcomes = {}
  /\ input_is_file = FALSE
  /\ input_apps = <<>>
  /\ args_random = FALSE
  /\ finished_file = <<>>
  /\ pc = "idle"
  /\ runs = 1
  /\ failure_file = <<>>
  /\ transient_file = <<>>
  /\ DOWNLOAD_QUEUE = <<>>
  /\ count = 0
  /\ finished_count = 0
  /\ queued = <<>>
  /\ tries = NoTries
  /\ codes = NoTries
  /\ dispatched = <<>>

CrawlerIdle ==
  /\ pc = "start"
  /\ runs = 1
  /\ failure_file = <<>>
  /\ transient_file = <<>>
  /\ DOWNLOAD_QUEUE = <<>>
  /\ count = 0
  /\ finished_count = 0
  /\ queued = <<>>
  /\ tries = NoTries
  /\ codes = NoTries
  /\ dispatched = <<>>

\* One run of the crawler in a new output directory, with app ids given on
\* the command line (nargs="+": at least one) and every outcome of download().
Init ==
  /\ prog = "crawler"
  /\ outcomes = Outcomes
  /\ input_is_file = FALSE
  /\ input_apps \in SeqsUpTo(Apps, MaxInput) \ {<<>>}
  /\ args_random \in BOOLEAN
  /\ finished_file = <<>>
  /\ CrawlerIdle
  /\ MetaIdle
  /\ LimiterIdle
  /\ ApiIdle

Next == StartCrawl \/ CrawlStep \/ EndCrawl

Spec == Init /\ [][Next]_vars

\* The same with the scheduling of the one thread of the crawler: the loop
\* goes on while it can, every call of download being taken to end.
SpecLive == Spec /\ WF_vars(Next)

\* Runs of the crawler that share one output directory, with the input on
\* the command line or in a file, and a finished.txt that may hold a comment.
InitResume ==
  /\ prog = "crawler"
  /\ outcomes = ResumeOutcomes
  /\ input_is_file \in BOOLEAN
  /\ input_apps \in
       (IF input_is_file THEN SeqsUpTo(InputFileLines, MaxInput)
        ELSE SeqsUpTo(Apps, MaxInput) \ {<<>>})
  /\ args_random \in BOOLEAN
  /\ finished_file \in {<<>>, <<"# note">>}
  /\ CrawlerIdle
  /\ MetaIdle
  /\ LimiterIdle
  /\ ApiIdle

\* The start of one run of the metadata crawl.
InitMeta ==
  /\ prog = "metadata"
  /\ CrawlerOff
  /\ LimiterIdle
  /\ ApiIdle
  /\ meta_pc = "start"
  /\ meta_exists \in BOOLEAN
  /\ meta_file \in (IF meta_exists THEN SeqsUpTo(RawLines, MaxInput) ELSE {<<>>})
  /\ meta_random \in BOOLEAN
  /\ app_queue = <<>>
  /\ ThreadsOff

InitStart == InitResume \/ InitMeta

NextStart == StartCrawl \/ CrawlStep \/ EndCrawl \/ Restart \/ MetaStart

SpecStart == InitStart /\ [][NextStart]_vars

\* Runs of the crawler that share one output directory, any of which the
\* user may interrupt; the app ids are given on the command line, in the
\* order of the command line, and finished.txt does not exist at first.
NextResume == StartCrawl \/ CrawlStep \/ EndCrawl \/ CrawlInterrupt \/ Restart

InitInterruptible ==
  /\ InitResume
  /\ ~input_is_file
  /\ ~args_random
  /\ finished_file = <<>>

SpecResume == InitInterruptible /\ [][NextResume]_vars

\* One run of either orchestrator to its end: the crawler as in Spec, or the
\* metadata crawl of a file of app ids with its threads.
InitRun ==
  /\ prog = "metadata"
  /\ CrawlerOff
  /\ LimiterIdle
  /\ ApiIdle
  /\ meta_pc = "start"
  /\ meta_exists = TRUE
  /\ meta_file \in SeqsUpTo(Apps, MaxInput) \ {<<>>}
  /\ meta_random \in BOOLEAN
  /\ app_queue = <<>>
  /\ ThreadsOff

NextCrawls ==
  \/ Next
  \/ MetaStart
  \/ \E w \in Workers : GetApp(w) \/ TryMetadata(w)
  \/ \E q \in Writers : Logging(q)
  \/ Join
  \/ Interrupt

SpecCrawls == (Init \/ InitRun) /\ [][NextCrawls]_vars

\* The same with the scheduling of the threads of the metadata crawl: a
\* worker or a writer that can take its next step takes it, every call of
\* details ends with one of its outcomes (which one is up to the store and
\* the network), and a join returns once it can.  The interrupt is the
\* user's to give or not.
SpecCrawlsLive ==
  /\ SpecCrawls
  /\ \A w \in Workers : WF_vars(GetApp(w)) /\ WF_vars(TryMetadata(w))
  /\ \A q \in Writers : WF_vars(Logging(q))
  /\ WF_vars(Join)

\* The workers of the scraping engine calling _request.  The limiter is
\* created (last_reset = clock()) when utils.py is imported, at time 0.
InitLimiter ==
  /\ prog = "scraper"
  /\ CrawlerOff
  /\ MetaIdle
  /\ LimiterIdle
  /\ ApiIdle

NextLimiter == \E w \in Workers : Request(w) \/ WakeUp(w) \/ Arrive(w) \/ Tick

SpecLimiter == InitLimiter /\ [][NextLimiter]_vars

\* The same with the scheduling of the threads: a thread that can take a
\* step of the code takes it, and time passes.  A call in flight is ended by
\* the program only when urlopen has a timeout; otherwise its end is up to
\* the peer.
SpecLimiterLive ==
  /\ SpecLimiter
  /\ WF_vars(Tick)
  /\ \A w \in Workers : WF_vars(Request(w)) /\ WF_vars(WakeUp(w))
  /\ \A w \in (IF urlopen_timeout = None THEN {} ELSE Workers) :
       WF_vars(Arrive(w))

\* One ElementSpec applied to one dataset map, and to a second map that
\* differs from it inside one sub-tree.
InitExtract ==
  /\ prog = "extract"
  /\ CrawlerOff
  /\ MetaIdle
  /\ LimiterIdle
  /\ ScrapeIdle
  /\ tree_pc = "given"
  /\ source \in DatasetMaps
  /\ element \in ElementSpecs
  /\ content = Returns(PyNone)
  /\ graft = NoGraft
  /\ content_other = Returns(PyNone)

NextExtract == Extract \/ ExtractOther

SpecExtract == InitExtract /\ [][NextExtract]_vars

\* One call of the scraping API: details or search of an app, or _build_url
\* alone with any kind of URL and any parameters.
InitApi ==
  /\ prog = "api"
  /\ CrawlerOff
  /\ MetaIdle
  /\ LimiterIdle
  /\ TreeIdle
  /\ api_pc = "call"
  /\ call \in Calls
  /\ url = NoUrl
  /\ api_exc = NoException
  /\ fetch = NoFetch
  /\ res = <<>>
  /\ record = <<>>
  /\ results = <<>>
  /\ token = PyNone
  /\ retry = 0
  /\ loaded = <<>>
  /\ tokens = 0
  /\ requests = 0
  /\ attempts = 0
  /\ failed = ""
  /\ gave_up = FALSE
  /\ marked = FALSE

NextApi == BuildUrl \/ Details \/ ClusterSeed \/ UiRequest

SpecApi == InitApi /\ [][NextApi]_vars




(***************************************************************************)
(* Vocabulary of the properties.  The classes of the messages are listed   *)
(* here by hand, independently of ErrorCode and IsConfigError.             *)
(***************************************************************************)
PermanentFailures ==
  {Failure(NotFoundMsg), Failure(IncompatibleMsg), Failure(BareNotFoundMsg)}
TransientFailures == {Failure(RateLimitMsg), Failure(UnknownMsg)}
ConfigFailures == {Failure(CredentialsMsg)}

\* The storefront's reason in a message, and the code of the message.
ReasonOf(msg) == msg[Len(msg)]
CodeOf(msg) ==
  CASE msg \in {NotFoundMsg, BareNotFoundMsg} -> 1
    [] msg = IncompatibleMsg -> 2
    [] msg = RateLimitMsg -> 14
    [] OTHER -> 15

QueueEntries(a) ==
  SelectSeq(DOWNLOAD_QUEUE, LAMBDA e : e.app = a)
InQueue(a) == QueueEntries(a) # <<>>
FailureTexts(a) ==
  LET ls == SelectSeq(failure_file, LAMBDA l : l.app = a)
  IN  [i \in DOMAIN ls |-> ls[i].text]
TransientTexts(a) ==
  LET ls == SelectSeq(transient_file, LAMBDA l : l.app = a)
  IN  [i \in DOMAIN ls |-> ls[i].text]
InFinished(a) == Count(finished_file, a) > 0
LastTry(a) == tries[a][Len(tries[a])]

\* The identifiers of the input and of the resumable log.
InputIds == {Strip(input_apps[i]) : i \in DOMAIN input_apps} \cap Apps
LogIds == Range(finished_file) \cap Apps
MetaIds == {Strip(meta_file[i]) : i \in DOMAIN meta_file} \cap Apps

\* The crawler has finished its start-up and has not yet tried an app.
JustStarted ==
  /\ prog = "crawler"
  /\ pc \in {"run", "done"}
  /\ tries = NoTries

(***************************************************************************)
(* C1.  When the retry of an app fails with a permanent error (code < 10), *)
(* the failure file holds for the app the reason of the second error,      *)
(* whatever the first error was, and the app is in finished.txt.           *)
(* Fails: a permanent message without ": " raises IndexError at line 206.  *)
(***************************************************************************)
C1_SecondPermanentRecorded ==
  \A a \in Apps :
    (Len(tries[a]) = 2 /\ tries[a][2] \in PermanentFailures)
      => /\ FailureTexts(a) = <<ReasonOf(tries[a][2].msg)>>
         /\ InFinished(a)

(***************************************************************************)
(* C2.  When the first attempt of an app fails with a permanent error and  *)
(* the retry with a transient one, the failure file holds for the app the  *)
(* reason of the first error, and the app is in finished.txt.              *)
(* Fails: a permanent first message without ": " raises IndexError at 213. *)
(***************************************************************************)
C2_FirstPermanentWins ==
  \A a \in Apps :
    ( /\ Len(tries[a]) = 2
      /\ tries[a][1] \in PermanentFailures
      /\ tries[a][2] \in TransientFailures )
      => /\ FailureTexts(a) = <<ReasonOf(tries[a][1].msg)>>
         /\ InFinished(a)

(***************************************************************************)
(* C3.  When both attempts of an app fail with transient errors, the app   *)
(* is abandoned: it has no line in the failure file, is not in             *)
(* finished.txt and is not on the queue again in that run.                 *)
(***************************************************************************)
C3_BothTransientAbandoned ==
  \A a \in Apps :
    ( /\ Len(tries[a]) = 2
      /\ tries[a][1] \in TransientFailures
      /\ tries[a][2] \in TransientFailures )
      => /\ FailureTexts(a) = <<>>
         /\ ~InFinished(a)
         /\ ~InQueue(a)

C3_Witness ==
  /\ pc = "done"
  /\ \E a \in Apps :
       /\ Len(tries[a]) = 2
       /\ tries[a][1] = Failure(RateLimitMsg)
       /\ tries[a][2] = Failure(UnknownMsg)

(***************************************************************************)
(* C4.  As claimed: after a completed run no queued app is both in         *)
(* finished.txt and in the failure file.                                   *)
(***************************************************************************)
C4_NeverInBoth ==
  pc = "done" =>
    \A a \in Range(queued) : ~(InFinished(a) /\ FailureTexts(a) # <<>>)

(***************************************************************************)
(* C4, amended.  After a completed run every queued app is in exactly one  *)
(* of three places: finished.txt alone (downloaded), the failure file      *)
(* together with finished.txt (finished with a recorded permanent error),  *)
(* or neither (abandoned, or stopped by a configuration error).  No app    *)
(* is in the failure file without being in finished.txt, and no app has    *)
(* two lines in either file.                                               *)
(***************************************************************************)
C4_FinishedFailureOrNeither ==
  pc = "done" =>
    \A a \in Range(queued) :
      /\ Count(finished_file, a) <= 1
      /\ Len(FailureTexts(a)) <= 1
      /\ FailureTexts(a) # <<>> => InFinished(a)
      /\ InFinished(a) <=>
           \/ LastTry(a).ok
           \/ Len(tries[a]) = 2 /\ FailureTexts(a) # <<>>

C4_Witness ==
  /\ pc = "done"
  /\ \E a, b \in Range(queued) :
       /\ InFinished(a) /\ FailureTexts(a) # <<>>
       /\ ~InFinished(b) /\ FailureTexts(b) = <<>>

(***************************************************************************)
(* C5.  Every queued app is attempted at most twice in a run.  After a     *)
(* first failure that is no configuration error the app is on the queue    *)
(* once more, with the retry flag and the code and message of the first    *)
(* attempt; a retry entry is on the queue only once the first attempt is   *)
(* over; after the second attempt the app is not on the queue.             *)
(***************************************************************************)
C5_AtMostTwoAttempts ==
  \A a \in Apps :
    /\ Len(tries[a]) <= 2
    /\ Len(QueueEntries(a)) <= 1
    /\ (Len(tries[a]) = 0 /\ InQueue(a))
         => QueueEntries(a)[1] = [app |-> a, is_retry |-> FALSE, previous |-> <<>>]
    /\ (Len(tries[a]) = 1 /\ tries[a][1] \in PermanentFailures \cup TransientFailures)
         => QueueEntries(a) =
              << [app |-> a, is_retry |-> TRUE,
                  previous |-> <<CodeOf(tries[a][1].msg), tries[a][1].msg>>] >>
    /\ (InQueue(a) /\ QueueEntries(a)[1].is_retry) => Len(tries[a]) = 1
    /\ Len(tries[a]) = 2 => ~InQueue(a)

C5_Witness ==
  \E a, b \in Apps :
    /\ Len(tries[a]) = 2
    /\ tries[a][2] \in TransientFailures
    /\ Len(tries[b]) = 1
    /\ InQueue(b)
    /\ QueueEntries(b)[1].is_retry

(***************************************************************************)
(* C6.  An attempt, first or retry, that fails with a configuration or     *)
(* credentials error is not retried: the app is not put back on the queue, *)
(* is not written to finished.txt, gets no line in the failure file, and   *)
(* the attempt adds no line to the transient file (the file holds one line *)
(* of the app for each of its transient failures and no other).            *)
(***************************************************************************)
C6_ConfigErrorNotRetried ==
  \A a \in Apps :
    (tries[a] # <<>> /\ LastTry(a) \in ConfigFailures)
      => /\ ~InQueue(a)
         /\ ~InFinished(a)
         /\ FailureTexts(a) = <<>>
         /\ TransientTexts(a) =
              [i \in DOMAIN SelectSeq(tries[a], LAMBDA o : o \in TransientFailures)
                 |-> SelectSeq(tries[a], LAMBDA o : o \in TransientFailures)[i].msg]

C6_Witness ==
  /\ pc = "done"
  /\ \E a, b \in Apps :
       /\ tries[a] = <<Failure(NotFoundMsg), Failure(CredentialsMsg)>>
       /\ tries[b] = <<Failure(CredentialsMsg)>>

(***************************************************************************)
(* C7.  When an attempt succeeds, on the first attempt or on the retry,    *)
(* the app is in finished.txt exactly once, is not on the queue again,     *)
(* and has no line in the failure file.                                    *)
(***************************************************************************)
C7_SuccessFinishedOnce ==
  \A a \in Apps :
    (tries[a] # <<>> /\ LastTry(a).ok)
      => /\ Count(finished_file, a) = 1
         /\ ~InQueue(a)
         /\ FailureTexts(a) = <<>>

C7_Witness ==
  /\ pc = "done"
  /\ \E a, b \in Apps :
       /\ tries[a] = <<Failure(NotFoundMsg), Success>>
       /\ tries[b] = <<Success>>

(***************************************************************************)
(* C8.  As claimed: at start-up every distinct identifier of the input is  *)
(* put on the queue exactly once, in both orchestrators.                   *)
(***************************************************************************)
C8_EachIdQueuedOnce ==
  /\ JustStarted => \A a \in InputIds : Len(QueueEntries(a)) = 1
  /\ (prog = "metadata" /\ meta_pc = "queued")
       => \A a \in MetaIds : Count(app_queue, a) = 1

(***************************************************************************)
(* C8, amended.  At start-up of the download orchestrator every distinct   *)
(* identifier of the input that is not already in the resumable log is put *)
(* on the queue exactly once, however many times it occurs in the input,   *)
(* and an identifier of the log is not queued; the metadata orchestrator   *)
(* queues every distinct identifier of its input exactly once.             *)
(***************************************************************************)
C8_EachUnfinishedIdQueuedOnce ==
  /\ JustStarted =>
       \A a \in InputIds :
         Len(QueueEntries(a)) = (IF a \in LogIds THEN 0 ELSE 1)
  /\ (prog = "metadata" /\ meta_pc = "queued")
       => \A a \in MetaIds : Count(app_queue, a) = 1

C8_Witness ==
  /\ JustStarted
  /\ input_apps = <<"b", "a", "b">>
  /\ LogIds = {"a"}
  /\ DOWNLOAD_QUEUE = <<[app |-> "b", is_retry |-> FALSE, previous |-> <<>>]>>

(***************************************************************************)
(* C9.  At the start of a run of the download orchestrator the queue holds *)
(* exactly the identifiers of the input that are not in the resumable log: *)
(* none of the log is queued, every other one is.  A run started when      *)
(* every identifier of the input is in the log queues nothing.             *)
(***************************************************************************)
C9_ResumeSkipsFinished ==
  JustStarted =>
    /\ {DOWNLOAD_QUEUE[i].app : i \in DOMAIN DOWNLOAD_QUEUE} = InputIds \ LogIds
    /\ InputIds \subseteq LogIds => (DOWNLOAD_QUEUE = <<>> /\ pc = "done")

C9_Witness ==
  /\ JustStarted
  /\ runs = 2
  /\ input_apps = <<"a", "b">>
  /\ "a" \in LogIds
  /\ DOWNLOAD_QUEUE = <<[app |-> "b", is_retry |-> FALSE, previous |-> <<>>]>>

(***************************************************************************)
(* C10.  In every sliding window of one period the limiter lets through at *)
(* most CALLS calls of _request, for any number of workers.                *)
(* Fails: the limiter counts per fixed window, from one reset to the       *)
(* next; the calls let through just before a reset and just after it are   *)
(* in one sliding window.                                                  *)
(***************************************************************************)
RECURSIVE AdmittedIn(_, _)
AdmittedIn(from, to) ==
  IF from > to THEN 0 ELSE admitted[from] + AdmittedIn(from + 1, to)

\* the ticks t .. t + PeriodTicks - 1 are a window of one period
C10_SlidingWindowBound ==
  \A t \in Ticks :
    t + PeriodTicks - 1 <= MaxClock
      => AdmittedIn(t, t + PeriodTicks - 1) <= CALLS

(***************************************************************************)
(* Vocabulary of the extraction properties: a path walked by the           *)
(* definition of the spec, one level per index.                            *)
(***************************************************************************)
IsSequence(node) == node.kind \in {"list", "str"}
Children(node) ==
  IF node.kind = "list" THEN node.items
  ELSE [i \in DOMAIN Chars(node.val) |-> Str(Chars(node.val)[i])]

\* Every index of the path is within the bounds of the sequence it indexes.
RECURSIVE InBounds(_, _)
InBounds(tree, path) ==
  \/ path = <<>>
  \/ /\ IsSequence(tree)
     /\ path[1] < Len(Children(tree))
     /\ InBounds(Children(tree)[path[1] + 1], Tail(path))

RECURSIVE ValueAt(_, _)
ValueAt(tree, path) ==
  IF path = <<>> THEN tree
  ELSE ValueAt(Children(tree)[path[1] + 1], Tail(path))

\* Some index of the path is past the end of the sequence it indexes.
RECURSIVE PastEnd(_, _)
PastEnd(tree, path) ==
  /\ path # <<>>
  /\ IsSequence(tree)
  /\ \/ path[1] >= Len(Children(tree))
     \/ PastEnd(Children(tree)[path[1] + 1], Tail(path))

KeyMissing == element.ds_num \notin DOMAIN source
Satisfiable ==
  /\ ~KeyMissing
  /\ InBounds(source[element.ds_num], element.extraction_map)
RunsPastEnd ==
  /\ ~KeyMissing
  /\ PastEnd(source[element.ds_num], element.extraction_map)
RawValue == ValueAt(source[element.ds_num], element.extraction_map)

\* A raw value is found: the path is satisfiable and the value is not None.
RawFound == Satisfiable /\ RawValue # PyNone

\* The post-processor of the element fails on a value.
Fails(name, value) ==
  /\ name = "split"
  /\ value.kind # "str" \/ value.val = ""

IsPrefix(p, q) == Len(p) <= Len(q) /\ SubSeq(q, 1, Len(p)) = p

(***************************************************************************)
(* C14.  For every dataset map and every element without post-processor,   *)
(* extract_content returns the value at the index path when every index is *)
(* within bounds, and None, without raising, when the key is missing or an *)
(* index is past the end of the sequence it indexes.                       *)
(* Fails: nested_lookup returns an empty list met on the path instead of   *)
(* None (line 24), whatever indexes are left.                              *)
(***************************************************************************)
C14_ExtractValueOrAbsent ==
  (prog = "extract" /\ tree_pc = "extracted" /\ element.post_processor = "none")
  => /\ content.exc = ""
     /\ Satisfiable => content.value = RawValue
     /\ (KeyMissing \/ RunsPastEnd) => content.value = PyNone

(***************************************************************************)
(* C15.  When a raw value is found and the post-processor fails on it,     *)
(* extract_content returns the declared fallback (None when none is        *)
(* declared) and does not raise; when no raw value is found the            *)
(* post-processor is not applied and the result is None.                   *)
(* Fails: the empty list nested_lookup returns for a path that runs past   *)
(* it (C14) is post-processed like a value found.                          *)
(***************************************************************************)
C15_FallbackOrAbsent ==
  (prog = "extract" /\ tree_pc = "extracted" /\ element.post_processor # "none")
  => /\ content.exc = ""
     /\ (RawFound /\ Fails(element.post_processor, RawValue))
          => content.value = element.post_processor_except_fallback
     /\ ~RawFound => content.value = PyNone

(***************************************************************************)
(* C17.  For two dataset maps that differ only inside the sub-tree at one  *)
(* position, every element whose dataset key is another one, or whose      *)
(* index path neither leads into that sub-tree nor stops above it, gives   *)
(* the same result on both maps.                                           *)
(***************************************************************************)
Unrelated ==
  \/ element.ds_num # graft.ds_num
  \/ /\ ~IsPrefix(graft.at, element.extraction_map)
     /\ ~IsPrefix(element.extraction_map, graft.at)

C17_Isolation ==
  (prog = "extract" /\ graft # NoGraft /\ Unrelated) => content_other = content

C17_Witness ==
  /\ prog = "extract"
  /\ graft # NoGraft
  /\ Unrelated
  /\ element.ds_num = graft.ds_num
  /\ graft.by = PyNone
  /\ content.value = Str("x")
  /\ content_other = content

(***************************************************************************)
(* Vocabulary of the properties of the API: the ids the pages listed, in   *)
(* the order the pages were read, and the kinds of URL with the parameters *)
(* each requires.                                                          *)
(***************************************************************************)
IdNodes(ids) == [i \in DOMAIN ids |-> Str(ids[i])]

RECURSIVE Listed(_)
Listed(pages) ==
  IF pages = <<>> THEN <<>> ELSE IdNodes(Head(pages)) \o Listed(Tail(pages))

Searching == prog = "api" /\ call.func = "search"

RequiredParams(kind) ==
  CASE kind \in {"details", "search", "collection"} -> {"func", "id", "hl", "gl"}
    [] kind = "filtered" -> {"collection", "category", "hl", "gl"}
    [] kind = "ui" -> {"hl", "gl"}
    [] OTHER -> {}
KnownKind(kind) == kind \in {"details", "search", "collection", "filtered", "ui"}

\* The callbacks of a page that have a key and a payload that decodes, the
\* last one of a key first.
Decodable(blocks) ==
  {i \in DOMAIN blocks : blocks[i].key # 0 /\ blocks[i].payload = "json"}
MapOfDecodable(blocks) ==
  [k \in {blocks[i].key : i \in Decodable(blocks)} |->
     blocks[Max({i \in Decodable(blocks) : blocks[i].key = k})].data]
HasUndecodable(blocks) ==
  \E i \in DOMAIN blocks : blocks[i].key # 0 /\ blocks[i].payload = "bad"

RecordFields ==
  {"appId", "url", "siteLocation", "siteLanguage", "title", "size", "version",
   "androidVersion", "downloadLink", "downloadLinkEnabled"}

(***************************************************************************)
(* C11.  When every response to the continuation request of the seed       *)
(* page's token holds the marker, the request is issued exactly 5 times,   *)
(* the pagination ends, and its result is the seed page's results.         *)
(* Fails: the request is issued 6 times (one call and 5 retries), and the  *)
(* text with the marker is then read as a result page, which adds None.    *)
(***************************************************************************)
C11_MarkerFiveAttempts ==
  (Searching /\ gave_up /\ requests = attempts)
  => /\ api_pc = "returned"
     /\ attempts = 5
     /\ results = Listed(loaded)

(***************************************************************************)
(* C12.  When the seed page and every continuation page are fetched and    *)
(* read without failure and without marker, the result is the ids of the   *)
(* pages in the order the pages were fetched, one continuation request was *)
(* issued per token received, and the pagination goes on exactly while the *)
(* last page carried a token.                                              *)
(***************************************************************************)
C12_PagesInLoadOrder ==
  (Searching /\ api_pc \in {"loop", "returned"} /\ ~marked /\ failed = "")
  => /\ results = Listed(loaded)
     /\ api_pc = "returned" =>
          (requests = tokens /\ fetch.met.served.token = "none")
     /\ api_pc = "loop" =>
          (requests = tokens - 1 /\ fetch.met.served.token = "t")

C12_Witness ==
  /\ Searching
  /\ api_pc = "returned"
  /\ ~marked
  /\ failed = ""
  /\ loaded = << <<"a">>, <<"b", "a">>, <<"a">> >>
  /\ results = <<Str("a"), Str("b"), Str("a"), Str("a")>>
  /\ requests = 2

(***************************************************************************)
(* C13.  When a step of the continuation loop fails (the fetch, the        *)
(* decoding or reading of the response, or the lookup of the next token),  *)
(* the pagination ends without raising and returns the ids of the pages    *)
(* read before the failing step.                                           *)
(***************************************************************************)
C13_FailureKeepsResults ==
  (Searching /\ failed # "")
  => /\ api_pc = "returned"
     /\ api_exc = NoException
     /\ results = Listed(loaded)

C13_Witness ==
  /\ Searching
  /\ failed = "fetch"
  /\ fetch.got.exc = "ExtraHTTPError"
  /\ api_pc = "returned"
  /\ results = <<Str("a"), Str("b"), Str("a")>>

(***************************************************************************)
(* C16.  details on any parsed dataset map, the empty one included,        *)
(* returns a record that holds every field name; it does not raise.        *)
(* Fails: max() of no key raises ValueError (api.py:45), a last callback   *)
(* without index 4 or 5 raises IndexError (api.py:47), a button with an    *)
(* offer and no url raises IndexError (utils.py:79).                       *)
(***************************************************************************)
C16_RecordAlwaysBuilt ==
  (/\ prog = "api"
   /\ call.func = "details"
   /\ api_pc \in {"returned", "raised"}
   /\ api_exc.from \notin {"_build_url", "_request", "_parse_response"})
  => /\ api_pc = "returned"
     /\ DOMAIN record = RecordFields

(***************************************************************************)
(* C18.  When a callback of the page has a payload that does not decode,   *)
(* _parse_response drops it and returns the dataset map of the other       *)
(* callbacks.                                                              *)
(* Fails: json.loads is not guarded (utils.py:62), the JSONDecodeError     *)
(* leaves _parse_response and the call.                                    *)
(***************************************************************************)
C18_UndecodableDropped ==
  (/\ prog = "api"
   /\ fetch.count = 1
   /\ fetch.got.exc = ""
   /\ HasUndecodable(fetch.got.body.blocks))
  => /\ api_exc.from # "_parse_response"
     /\ res = MapOfDecodable(fetch.got.body.blocks)

(***************************************************************************)
(* C19.  _request maps what the fetch met to one result: status 404 to     *)
(* NotFoundError, another HTTP error status to ExtraHTTPError with the     *)
(* status, a transport failure to an error that is neither, and success to *)
(* the body.                                                               *)
(***************************************************************************)
C19_FetchClassified ==
  (prog = "api" /\ fetch.count > 0)
  => LET status == fetch.met.status
         got == fetch.got
     IN  /\ status = 404 => got.exc = "NotFoundError"
         /\ status \notin {0, 200, 404} =>
              (got.exc = "ExtraHTTPError" /\ got.code = status)
         /\ status = 0 => got.exc \notin {"", "NotFoundError", "ExtraHTTPError"}
         /\ status = 200 => (got.exc = "" /\ got.body = fetch.met.body)

C19_Witness ==
  /\ prog = "api"
  /\ fetch.count > 0
  /\ fetch.met.status = 500
  /\ fetch.got.exc = "ExtraHTTPError"
  /\ fetch.got.code = 500

(***************************************************************************)
(* C20.  _build_url returns a URL for every known kind given all the       *)
(* parameters the kind requires, and raises InvalidURLError, returning no  *)
(* URL, for an unknown kind or when a required parameter is missing.       *)
(***************************************************************************)
C20_BuildUrlValidates ==
  (prog = "api" /\ api_pc # "call")
  => IF KnownKind(call.url_type) /\ RequiredParams(call.url_type) \subseteq call.params
     THEN /\ url.url_type = call.url_type
          /\ url.params = RequiredParams(call.url_type)
          /\ api_exc.from # "_build_url"
     ELSE /\ api_pc = "raised"
          /\ api_exc = [name |-> "InvalidURLError", from |-> "_build_url"]
          /\ url = NoUrl

C20_Witness ==
  /\ prog = "api"
  /\ call.func = "_build_url"
  /\ call.url_type = "filtered"
  /\ call.params = {"collection", "hl", "gl", "func", "id"}
  /\ api_pc = "raised"
  /\ api_exc.name = "InvalidURLError"

(***************************************************************************)
(* Vocabulary of the properties of the output files.  The permanent        *)
(* reasons of the storefront are listed here by hand.                      *)
(***************************************************************************)
PermanentReasons ==
  { "Item not found",
    "Your device is not compatible with this item",
    "The Play Store application on your device is outdated",
    "Google Play purchases are not supported in your country",
    "This item is not available on your service provider" }

HasPermanentReason(msg) == \E i \in DOMAIN msg : msg[i] \in PermanentReasons

\* Messages of one or two pieces, among them every reason of the storefront.
ReasonPieces ==
  PermanentReasons \cup
    {"Rate limit triggered", "Error when downloading", "no attribute docV2"}
ReasonMessages == SeqsUpTo(ReasonPieces, 2) \ {<<>>}

\* The messages of the transient failures among the attempts of an app.
TransientTried(a) ==
  LET os == SelectSeq(tries[a], LAMBDA o : o \in TransientFailures)
  IN  [i \in DOMAIN os |-> os[i].msg]

(***************************************************************************)
(* C25.  As claimed: an app abandoned after two transient failures has no  *)
(* line in finished.txt, none in the failure file and none in the          *)
(* transient file.                                                         *)
(***************************************************************************)
C25_AbandonedInNoFile ==
  \A a \in Apps :
    ( /\ Len(tries[a]) = 2
      /\ tries[a][1] \in TransientFailures
      /\ tries[a][2] \in TransientFailures )
      => /\ ~InFinished(a)
         /\ FailureTexts(a) = <<>>
         /\ TransientTexts(a) = <<>>

(***************************************************************************)
(* C25, amended.  An app abandoned after two transient failures has no     *)
(* line in finished.txt and none in the failure file; the transient file   *)
(* holds two lines of the app, the messages of its two attempts in order.  *)
(***************************************************************************)
C25_AbandonedOnlyInTransient ==
  \A a \in Apps :
    ( /\ Len(tries[a]) = 2
      /\ tries[a][1] \in TransientFailures
      /\ tries[a][2] \in TransientFailures )
      => /\ ~InFinished(a)
         /\ FailureTexts(a) = <<>>
         /\ TransientTexts(a) = <<tries[a][1].msg, tries[a][2].msg>>

C25_Witness ==
  /\ pc = "done"
  /\ \E a \in Apps :
       /\ tries[a] = <<Failure(UnknownMsg), Failure(RateLimitMsg)>>
       /\ TransientTexts(a) = <<UnknownMsg, RateLimitMsg>>

(***************************************************************************)
(* C26.  The transient file holds for every app exactly one line per       *)
(* attempt that failed with a transient error, first attempt or retry, in  *)
(* the order of the attempts and with the message of the attempt; an       *)
(* attempt that failed with a permanent error adds no line to it.          *)
(***************************************************************************)
C26_TransientLoggedEachTime ==
  \A a \in Apps : TransientTexts(a) = TransientTried(a)

C26_Witness ==
  /\ pc = "done"
  /\ \E a, b \in Apps :
       /\ tries[a] = <<Failure(RateLimitMsg), Failure(NotFoundMsg)>>
       /\ TransientTexts(a) = <<RateLimitMsg>>
       /\ tries[b] = <<Failure(IncompatibleMsg), Failure(UnknownMsg)>>
       /\ TransientTexts(b) = <<UnknownMsg>>

(***************************************************************************)
(* C27.  The failure file holds at most one line per app in a run, no line *)
(* of an app before the second attempt of the app, and once the line is    *)
(* written the app is not on the queue again.                              *)
(***************************************************************************)
C27_FailureOnlyFinal ==
  \A a \in Apps :
    /\ Len(FailureTexts(a)) <= 1
    /\ Len(tries[a]) <= 1 => FailureTexts(a) = <<>>
    /\ FailureTexts(a) # <<>> => ~InQueue(a)

C27_Witness ==
  \E a, b \in Apps :
    /\ tries[a] = <<Failure(NotFoundMsg), Failure(IncompatibleMsg)>>
    /\ FailureTexts(a) = <<"Your device is not compatible with this item">>
    /\ tries[b] = <<Failure(IncompatibleMsg)>>
    /\ FailureTexts(b) = <<>>
    /\ InQueue(b)

C30_FinishedLogAppendOnly ==
  [][IsPrefix(finished_file, finished_file')]_vars

C30_Witness ==
  /\ prog = "crawler"
  /\ runs = 2
  /\ pc = "done"
  /\ finished_file = <<"# note", "a", "b">>

(***************************************************************************)
(* C24.  No entry of a work queue is a blank line or a comment line of the *)
(* input file: in the download orchestrator reading its input from a file  *)
(* and in the metadata orchestrator, every identifier on the queue is      *)
(* non-empty once trimmed and does not begin with '#'.                     *)
(* Fails: read_apps skips comments and duplicates only, and queues the     *)
(* empty identifier of the first blank line.                               *)
(***************************************************************************)
BlankLines == {"", "  "}
CommentLines == {"# note", "  # note"}

C24_NoBlankOrCommentQueued ==
  /\ \A i \in DOMAIN app_queue :
       app_queue[i] \notin BlankLines \cup CommentLines
  /\ \A i \in DOMAIN DOWNLOAD_QUEUE :
       DOWNLOAD_QUEUE[i].app \notin BlankLines \cup CommentLines

(***************************************************************************)
(* C21.  Every call of urlopen made by _request ends: a worker whose call  *)
(* is in flight is eventually out of it, with a response or an error.      *)
(* Fails: urlopen and opener.open are called without a timeout, so a call  *)
(* that the peer neither answers nor closes keeps its worker for ever.     *)
(***************************************************************************)
C21_FetchEnds ==
  \A w \in Workers : (wstate[w] = "in flight") ~> (wstate[w] # "in flight")

(***************************************************************************)
(* C29.  Every request of the scraping engine, from each of its call sites *)
(* (detail page, seed page, continuation request, re-send after the        *)
(* marker), is let through by the limiter before it is opened: at every    *)
(* tick the requests opened are those the limiter let through.  There is   *)
(* one limiter for all the workers: the requests opened by all the workers *)
(* together since the limiter's last reset are at most CALLS.              *)
(***************************************************************************)
RECURSIVE OpenedIn(_, _)
OpenedIn(from, to) ==
  IF from > to THEN 0 ELSE opened[from] + OpenedIn(from + 1, to)

C29_EveryRequestLimited ==
  /\ \A t \in Ticks : opened[t] = admitted[t]
  /\ OpenedIn(last_reset, clock) <= CALLS

C29_Witness ==
  /\ prog = "scraper"
  /\ \E v, w \in Workers :
       /\ wstate[v] = "in flight" /\ site[v] = "resend"
       /\ wstate[w] = "sleeping"
  /\ OpenedIn(last_reset, clock) = CALLS

(***************************************************************************)
(* C22.  When the interrupt has ended the metadata crawl, no worker was    *)
(* stopped in the middle of an app (every app taken from the queue was     *)
(* handled to its task_done), and every line and row put on an output      *)
(* queue is in its file.                                                   *)
(* Fails: main does not catch KeyboardInterrupt and all the threads are    *)
(* daemon threads: the workers are stopped wherever they are and the lines *)
(* still on the output queues are never written.                           *)
(***************************************************************************)
Unwritten(q) == SelectSeq(out_queue[q], LAMBDA l : l.text # "-1")

C22_InterruptDrains ==
  meta_pc = "interrupted"
    => /\ \A w \in Workers : worker[w].pc \notin {"try", "retry"}
       /\ \A q \in Writers : Unwritten(q) = <<>>

(***************************************************************************)
(* C23.  At every moment each work queue holds at most one entry of any    *)
(* app: the queue of the download orchestrator, also after an app is put   *)
(* back for its retry, and the queue of the metadata orchestrator, also    *)
(* after a worker puts an app back on an unknown failure.                  *)
(***************************************************************************)
C23_QueueHoldsIdOnce ==
  \A a \in Apps :
    /\ Len(QueueEntries(a)) <= 1
    /\ Count(app_queue, a) <= 1
    /\ Count(app_queue, a) = 1 => \A w \in Workers : worker[w].app # a

C23_Witness ==
  /\ prog = "metadata"
  /\ meta_file = <<"a", "b", "a">>
  /\ ~meta_random
  /\ app_queue = <<"b", "a">>
  /\ \A w \in Workers : worker[w].pc = "get"

(***************************************************************************)
(* C31.  As claimed: in every reduced metadata row put on the output       *)
(* queue, the two link fields (the fifth and the sixth) are the words true *)
(* or false in lower case.                                                 *)
(* Fails: the fields are bool values rendered by str.format, which writes  *)
(* True and False.                                                         *)
(***************************************************************************)
MetadataRows == out_file["metadata"] \o Unwritten("metadata")

C31_BooleansLowerCase ==
  \A i \in DOMAIN MetadataRows :
    /\ MetadataRows[i].row[5] \in {"true", "false"}
    /\ MetadataRows[i].row[6] \in {"true", "false"}

(***************************************************************************)
(* C31, amended.  Every reduced metadata row has six fields, and its two   *)
(* link fields are the words True or False, as Python writes a bool;       *)
(* never the link itself, the word None or an empty field.                 *)
(***************************************************************************)
C31_BooleansAsPythonWords ==
  \A i \in DOMAIN MetadataRows :
    /\ Len(MetadataRows[i].row) = 6
    /\ MetadataRows[i].row[5] \in {"True", "False"}
    /\ MetadataRows[i].row[6] \in {"True", "False"}

C31_Witness ==
  \E i, j \in DOMAIN out_file["metadata"] :
    /\ out_file["metadata"][i].row = <<"a", "1.0", "1", "None", "False", "False">>
    /\ out_file["metadata"][j].row =
         <<"b", "1.0", "1", "\"Oct 9, 2012\"", "True", "True">>

(***************************************************************************)
(* C32.  Whatever the outcome of each call of details, a metadata crawl    *)
(* that is not interrupted finishes: main gets past the join of the app    *)
(* queue and of the output queues and writes the finish line.              *)
(* Fails: an exception that try_metadata does not catch ends the worker    *)
(* thread before task_done, so the unfinished count of the app queue never *)
(* reaches 0 and main waits in the join for ever; and an app whose every   *)
(* request ends in ValueError or OSError is put back on the queue each     *)
(* time.                                                                   *)
(***************************************************************************)
C32_CrawlFinishes ==
  (meta_pc = "queued") ~> (meta_pc \in {"finished", "interrupted"})

(***************************************************************************)
(* C33.  When main has written the finish line, every log line and every   *)
(* metadata row a worker put on an output queue is in its file, the log    *)
(* lines before the finish line; and a stop sentinel is put on an output   *)
(* queue only when no worker can put anything more and the queue has been  *)
(* emptied into the file, so that the sentinel is alone on its queue.      *)
(***************************************************************************)
Sentinel == LogLine("", "-1")
FinishLine == LogLine("", "Finished crawl")
WorkerLines(q) == SelectSeq(out_file[q], LAMBDA l : l # FinishLine)

C33_OutputWrittenBeforeFinish ==
  /\ \A q \in Writers :
       Count(out_queue[q], Sentinel) > 0
         => /\ out_queue[q] = <<Sentinel>>
            /\ \A w \in Workers : worker[w].pc \notin {"try", "retry"}
            /\ \A a \in Apps : Count(app_queue, a) = 0
  /\ Count(out_file["log"], FinishLine) > 0
       => /\ meta_pc = "finished"
          /\ out_file["log"] = Append(WorkerLines("log"), FinishLine)
  /\ meta_pc = "finished"
       => /\ \A q \in Writers : Unwritten(q) = <<>>
          /\ Count(out_file["log"], FinishLine) = 1
          /\ \A a \in MetaIds :
               \/ /\ Count(out_file["log"], LogLine(a, "written")) = 1
                  /\ \E i \in DOMAIN out_file["metadata"] :
                       out_file["metadata"][i].app = a
               \/ /\ Count(out_file["log"], LogLine(a, "error")) = 1
                  /\ \A i \in DOMAIN out_file["metadata"] :
                       out_file["metadata"][i].app # a

C33_Witness ==
  /\ meta_pc = "finished"
  /\ out_file["log"] = <<LogLine("b", "error"), LogLine("a", "written"), FinishLine>>
  /\ Len(out_file["metadata"]) = 1

(***************************************************************************)
(* C34.  As claimed: each app has at most one metadata row, and an app     *)
(* whose first request raised a scraper error is requested once more, by   *)
(* the same worker, and never after that: once its retry is over no worker *)
(* holds the app again.                                                    *)
(* Fails: a retry that ends in ValueError or OSError puts the app back on  *)
(* the queue, and the app is requested again, by whichever worker takes it.*)
(***************************************************************************)
RowsOf(a) == Len(SelectSeq(MetadataRows, LAMBDA l : l.app = a))
ErrorLinesOf(a) ==
  Count(out_file["log"] \o Unwritten("log"), LogLine(a, "error"))
Holds(w, a) == worker[w].app = a /\ worker[w].pc \in {"try", "retry"}

RECURSIVE Dequeued(_)
Dequeued(S) ==
  IF S = {} THEN 0
  ELSE LET a == CHOOSE x \in S : TRUE
       IN  Len(tries[a]) + Dequeued(S \ {a})

C35_LoopTerminates ==
  /\ [](Dequeued(Apps) <= 2 * Len(queued))
  /\ <>(pc \in {"done", "crashed"} /\ DOWNLOAD_QUEUE = <<>>)

(***************************************************************************)
(* C36.  Whatever the failure message of a download, no exception leaves   *)
(* the crawl loop, and at the end of the run the queue is empty and every  *)
(* app queued at start-up has been dispatched.                             *)
(* Fails: on a retry, a permanent message without ": " (or a transient one *)
(* after a permanent first message without ": ") raises IndexError at line *)
(* 206 (or 213), which crawl does not catch.                               *)
(***************************************************************************)
C36_FailureNeverStopsCrawl ==
  /\ pc # "crashed"
  /\ pc = "done" => /\ DOWNLOAD_QUEUE = <<>>
                    /\ \A a \in Range(queued) : tries[a] # <<>>

(***************************************************************************)
(* C37.  Over the runs that share one finished.txt, whether a run ends by  *)
(* itself, by an exception or by an interrupt, no app is appended to       *)
(* finished.txt twice: each app has at most one line in it.  The witness   *)
(* is a second run that downloads an app whose failure the first run had   *)
(* recorded when the interrupt came, before it was written to finished.txt.*)
(***************************************************************************)
C37_FinishedOnceOverRuns ==
  \A a \in Apps : Count(finished_file, a) <= 1

C37_Witness ==
  /\ runs = 2
  /\ pc = "done"
  /\ input_apps = <<"a", "b", "a">>
  /\ finished_file = <<"b", "a">>
  /\ FailureTexts("a") = <<"Item not found">>
  /\ tries["a"] = <<Success>>
  /\ tries["b"] = <<>>

(***************************************************************************)
(* C38.  Every entry of the download queue has its retry flag set exactly  *)
(* when it carries a previous error.  An entry of a first attempt has no   *)
(* previous error and its app has not been tried; an entry put back for a  *)
(* retry carries the pair (code, message) of the first attempt of its app: *)
(* the code execute gave that attempt and the message download raised.     *)
(***************************************************************************)
C38_RetryFlagIffPrevious ==
  \A i \in DOMAIN DOWNLOAD_QUEUE :
    LET e == DOWNLOAD_QUEUE[i]
    IN  /\ e.is_retry <=> e.previous # None
        /\ ~e.is_retry => tries[e.app] = <<>>
        /\ e.is_retry =>
             /\ Len(e.previous) = 2
             /\ e.previous[1] \in {1, 2, 4, 5, 8, 14, 15}
             /\ Len(tries[e.app]) = 1
             /\ e.previous[2] = tries[e.app][1].msg
             /\ codes[e.app] = << <<e.previous[1]>> >>

C38_Witness ==
  /\ Len(DOWNLOAD_QUEUE) = 2
  /\ DOWNLOAD_QUEUE[1] = [app |-> "b", is_retry |-> FALSE, previous |-> None]
  /\ DOWNLOAD_QUEUE[2] =
       [app |-> "a", is_retry |-> TRUE, previous |-> <<14, RateLimitMsg>>]

(***************************************************************************)
(* C39.  Without the random option the first attempts are dispatched in    *)
(* the order of the input (each app at its first occurrence).  An app put  *)
(* back for a retry goes to the back of the queue: when its second attempt *)
(* is dispatched, every app queued at start-up has had its first attempt,  *)
(* and every app that was dispatched before its first attempt has had its  *)
(* retry too, if it was put back, and is no longer on the queue.           *)
(***************************************************************************)
RECURSIVE FirstOccurrences(_)
FirstOccurrences(s) ==
  IF s = <<>> THEN <<>>
  ELSE LET init == FirstOccurrences(SubSeq(s, 1, Len(s) - 1))
       IN  IF s[Len(s)] \in Range(init) THEN init ELSE Append(init, s[Len(s)])

DispatchesOf(a) == {i \in DOMAIN dispatched : dispatched[i] = a}

C39_FifoRetryAtBack ==
  /\ ~args_random
       => IsPrefix(FirstOccurrences(dispatched), FirstOccurrences(input_apps))
  /\ \A a \in Apps :
       \A i, j \in DispatchesOf(a) :
         i < j =>
           /\ \A x \in Range(queued) : \E p \in DispatchesOf(x) : p < j
           /\ \A x \in Apps \ {a} :
                (\E p \in DispatchesOf(x) : p < i)
                  => /\ ~InQueue(x)
                     /\ \A q \in DispatchesOf(x) : q < j

C39_Witness ==
  /\ ~args_random
  /\ input_apps = <<"b", "a", "b">>
  /\ dispatched = <<"b", "a", "b", "a">>
  /\ pc = "done"

====
